---- MODULE Spec2Model ----
(***************************************************************************)
(* Planning and movement engine of the room/door agent simulation:         *)
(* DoorManager (doors.py), Agent (agents.py), BoardGame (board.py) and     *)
(* GameController (controller.py).                                         *)
(*                                                                         *)
(* Positions are IEEE doubles in the code, advanced in steps of            *)
(* speed = 0.1 cell.  A coordinate is kept here as a whole number of       *)
(* speed steps (x, y) together with the side (fx, fy) on which the double  *)
(* lies of that nominal value when the nominal value is a whole cell:      *)
(* -1 below, 0 exactly on it, 1 above.  int(), == and the comparisons with *)
(* speed read those sides (FloatInt, FloatEq, FloatCmp).                   *)
(* The specifications of the game loop leave the time out (Tick, NoTick);  *)
(* SpecClock keeps the clock and the controller's fields (handle_events).  *)
(* Fields used only for drawing (color, personality, current_ingredient)   *)
(* are left out.  The conversations of conversation_handler.py are part   *)
(* of SpecTalk only: a pass in which no pair starts to talk changes        *)
(* nothing.  dialogue.py reads agent.name; the record is taken to carry    *)
(* the name as the callers read it.                                        *)
(* board.py constructs every Agent with a role and reads agent.role; the   *)
(* record carries that field as board.py passes it.                        *)
(* The boards are small ones in the format load_board and load_from_file   *)
(* read, the cauldron of board.py line 67 standing on one of their cells   *)
(* or, on the single-room board, also on a cell of no room.                *)
(* The base variant, board-game-framework.py, is modelled after the        *)
(* extended one: its tokens, plans and turns.                              *)
(***************************************************************************)
EXTENDS Integers, Sequences, FiniteSets, TLC

VARIABLES
    rooms,        \* BoardGame.rooms: room id -> set of cells <<x, y>>
    doors,        \* DoorManager.doors: the Door records in file order (base
                  \* variant: the room pairs of the door file's lines)
    hashOrder,    \* iteration order of a Python set of room ids
    agents,       \* BoardGame.agents: id -> Agent record of each agent in the list
    cauldron,     \* BoardGame.cauldron: the Cauldron record
    voted,        \* run(): voting_phase_occurred
    pc,           \* position in the body of run()'s loop
    ticked,       \* agent chosen by the scheduler in this loop iteration, or None
    touched,      \* agents whose record was changed by update() in this iteration
    crashed,      \* exception that ended the program, or "none"
    query,        \* inputs of the last path query (path-planner specification);
                  \* the entries passed to remember_conversation (MemorySpec)
    result,       \* its result
    tokens,       \* board-game-framework.py, BoardGame.tokens: id -> Token record
    clock,        \* pygame.time.get_ticks() as handle_events last read it, in ms
    controller,   \* GameController: tick_rate_ms, last_tick, turn
    paused,       \* BoardGame.paused
    selected_agent, \* BoardGame.selected_agent: the id of the agent, or None
    talk          \* try_conversation: the dialogue request in flight, or NoTalk

vars == <<rooms, doors, hashOrder, agents, cauldron, voted, pc,
          ticked, touched, crashed, query, result, tokens, clock, controller,
          paused, selected_agent, talk>>

\* Python None for an optional number (coordinates and ids are never negative)
None == 0 - 1
\* Python None for an optional room id
NoRoom == "None"
\* Agent.plan = None
NoPlan == [type |-> "none", target |-> NoRoom, turns_remaining |-> 0, visited_rooms |-> {}]

\* no dialogue requested
NoTalk == [agent1 |-> None, agent2 |-> None, turn |-> None]

\* 1 / Agent.speed: speed steps per cell
StepsPerCell == 10

\* sequencing: value is computed once and op applied to it, as a statement's
\* result is bound to a local name before the statements after it use it
With(value, op(_)) == CHOOSE r \in {op(v) : v \in {value}} : TRUE

----------------------------------------------------------------------------
(* doors.py *)

Door(r1, r2, x1, y1, x2, y2) ==
    [room1 |-> r1, room2 |-> r2, x1 |-> x1, y1 |-> y1, x2 |-> x2, y2 |-> y2]

connects_rooms(door, room1, room2) ==
    \/ door.room1 = room1 /\ door.room2 = room2
    \/ door.room1 = room2 /\ door.room2 = room1

is_horizontal(door) == door.y1 = door.y2

\* DoorManager.load_from_file: the room_connections dict built from the door lines
room_connections(ds) ==
    LET named == {ds[i].room1 : i \in DOMAIN ds} \cup {ds[i].room2 : i \in DOMAIN ds}
    IN  [r \in named |->
            {ds[i].room2 : i \in {j \in DOMAIN ds : ds[j].room1 = r}} \cup
            {ds[i].room1 : i \in {j \in DOMAIN ds : ds[j].room2 = r}}]

\* index of the first door of the list that connects the two rooms, 0 if none
first_door(ds, room1, room2) ==
    LET hits == {i \in DOMAIN ds : connects_rooms(ds[i], room1, room2)}
    IN  IF hits = {} THEN 0 ELSE CHOOSE i \in hits : \A j \in hits : i <= j

has_door(ds, room1, room2) == first_door(ds, room1, room2) # 0

get_door_between_rooms(ds, room1, room2) == ds[first_door(ds, room1, room2)]

\* the midpoint of a door
midpoint(door) == <<(door.x1 + door.x2) \div 2, (door.y1 + door.y2) \div 2>>

\* midpoint of the first door connecting the rooms (callers test has_door first)
get_door_position(ds, room1, room2) == midpoint(ds[first_door(ds, room1, room2)])

get_doors_for_room(ds, room) ==
    SelectSeq(ds, LAMBDA d : room = d.room1 \/ room = d.room2)

----------------------------------------------------------------------------
(* floating point *)

Abs(n) == IF n < 0 THEN 0 - n ELSE n

\* int(v) of the double at nominal value v with side f
FloatInt(v, f) ==
    IF f = 0 - 1 /\ v > 0 THEN (v \div StepsPerCell) - 1 ELSE v \div StepsPerCell

\* v == c for a whole cell coordinate c
FloatEq(v, f, c) == v = c * StepsPerCell /\ f = 0

FloatGt(v, f, c) == v > c * StepsPerCell \/ (v = c * StepsPerCell /\ f = 1)

FloatLt(v, f, c) == v < c * StepsPerCell \/ (v = c * StepsPerCell /\ f = 0 - 1)

\* the comparison as it would be if abs(d) could come out as speed itself
FloatCmp_with_equal(d) ==
    IF Abs(d) > 1 THEN {"gt"} ELSE IF Abs(d) = 0 THEN {"lt"} ELSE {"lt", "eq", "gt"}

\* how abs(d) compares with speed, d the nominal displacement in speed steps:
\* one step away the accumulated rounding decides, and it never leaves the
\* double at speed exactly on a walk from one whole cell to another (every
\* walk of the program is one: targets are set only on an agent standing on
\* a whole cell, or again to the target it has)
FloatCmp(d) ==
    IF Abs(d) > 1 THEN {"gt"} ELSE IF Abs(d) = 0 THEN {"lt"} ELSE {"lt", "gt"}

\* sides a coordinate can have after one more += speed
FloatSides(v) == IF v % StepsPerCell = 0 THEN {0 - 1, 0, 1} ELSE {0}

----------------------------------------------------------------------------
(* board.py: topology queries *)

\* the order in which a for loop visits the Python set S
IterOrder(S, ord) == SelectSeq(ord, LAMBDA r : r \in S)

RECURSIVE door_room(_, _, _, _)
\* get_room_at_position lines 637-647: the room across the first door of
\* current_room whose position is the cell, NoRoom if there is none
door_room(ds, mine, cell, current_room) ==
    IF mine = <<>> THEN NoRoom
    ELSE LET door == Head(mine)
             other_room == IF current_room = door.room1 THEN door.room2 ELSE door.room1
         IN  IF /\ get_door_position(ds, door.room1, door.room2) = cell
                /\ connects_rooms(door, current_room, other_room)
             THEN other_room
             ELSE door_room(ds, Tail(mine), cell, current_room)

room_containing(rs, cell) ==
    IF \E r \in DOMAIN rs : cell \in rs[r]
    THEN CHOOSE r \in DOMAIN rs : cell \in rs[r]
    ELSE NoRoom

\* get_room_at_position lines 649-660, across the result of lines 635-647
room_else(rs, cell, current_room, across) ==
    IF across # NoRoom THEN across
    ELSE IF current_room # NoRoom /\ cell \in rs[current_room] THEN current_room
    ELSE room_containing(rs, cell)

get_room_at_position(rs, ds, cell, current_room) ==
    With(IF current_room # NoRoom
         THEN door_room(ds, get_doors_for_room(ds, current_room), cell, current_room)
         ELSE NoRoom,
         LAMBDA across : room_else(rs, cell, current_room, across))

RECURSIVE bfs_neighbours(_, _, _, _, _)
\* find_path_to_room lines 325-330: the for loop over connected_rooms
bfs_neighbours(nbrs, path, target_room, queue, visited) ==
    IF nbrs = <<>> THEN [found |-> FALSE, queue |-> queue, visited |-> visited, path |-> <<>>]
    ELSE LET next_room == Head(nbrs) IN
         IF next_room = target_room
         THEN [found |-> TRUE, queue |-> queue, visited |-> visited,
               path |-> Append(path, next_room)]
         ELSE IF next_room \notin visited
         THEN bfs_neighbours(Tail(nbrs), path, target_room,
                             Append(queue, Append(path, next_room)),
                             visited \cup {next_room})
         ELSE bfs_neighbours(Tail(nbrs), path, target_room, queue, visited)

RECURSIVE bfs_loop(_, _, _, _, _)
\* find_path_to_room as it would be if the path returned left out its start
bfs_next_tail(conn, ord, target_room, r) ==
    IF r.found THEN [kind |-> "path", path |-> Tail(r.path)]
    ELSE bfs_loop(conn, ord, target_room, r.queue, r.visited)

\* find_path_to_room lines 326-327 and 321: return the path found, or go round
\* the while loop again
bfs_next(conn, ord, target_room, r) ==
    IF r.found THEN [kind |-> "path", path |-> r.path]
    ELSE bfs_loop(conn, ord, target_room, r.queue, r.visited)

\* find_path_to_room lines 321-332: the while loop; each queue entry is the
\* path, its last room the room to expand
bfs_loop(conn, ord, target_room, queue, visited) ==
    IF queue = <<>> THEN [kind |-> "none", path |-> <<>>]
    ELSE IF Head(queue)[Len(Head(queue))] \notin DOMAIN conn
    THEN [kind |-> "KeyError", path |-> <<>>]
    ELSE With(bfs_neighbours(IterOrder(conn[Head(queue)[Len(Head(queue))]], ord),
                             Head(queue), target_room, Tail(queue), visited),
              LAMBDA r : bfs_next(conn, ord, target_room, r))

find_path_to_room(ds, ord, start_room, target_room) ==
    IF start_room = target_room THEN [kind |-> "path", path |-> <<start_room>>]
    ELSE With(room_connections(ds),
              LAMBDA conn : bfs_loop(conn, ord, target_room, <<<<start_room>>>>, {start_room}))

RECURSIVE door_waypoints(_, _, _)
\* find_path_through_doors lines 684-690
door_waypoints(ds, room_path, i) ==
    IF i >= Len(room_path) THEN <<>>
    ELSE (IF has_door(ds, room_path[i], room_path[i + 1])
          THEN <<get_door_position(ds, room_path[i], room_path[i + 1])>>
          ELSE <<>>) \o door_waypoints(ds, room_path, i + 1)

\* find_path_through_doors as it would be if it went straight for the target
waypoints_along_direct(ds, room_path, target_x, target_y) ==
    IF room_path.kind = "KeyError" THEN [kind |-> "KeyError", waypoints |-> <<>>]
    ELSE IF room_path.kind = "none" THEN [kind |-> "ok", waypoints |-> <<>>]
    ELSE [kind |-> "ok", waypoints |-> <<<<target_x, target_y>>>>]

\* find_path_through_doors lines 680-697, room_path the result of line 677
waypoints_along(ds, room_path, target_x, target_y) ==
    IF room_path.kind = "KeyError" THEN [kind |-> "KeyError", waypoints |-> <<>>]
    ELSE IF room_path.kind = "none" THEN [kind |-> "ok", waypoints |-> <<>>]
    ELSE [kind |-> "ok",
          waypoints |-> Append(door_waypoints(ds, room_path.path, 1), <<target_x, target_y>>)]

\* find_path_through_doors as it would be if a target in no room were taken
\* for a cell to walk to
waypoints_to_anywhere(ds, ord, agent, target_x, target_y, target_room) ==
    IF target_room = NoRoom \/ agent.current_room = target_room
    THEN IF FloatEq(agent.x, agent.fx, target_x) /\ FloatEq(agent.y, agent.fy, target_y)
         THEN [kind |-> "ok", waypoints |-> <<>>]
         ELSE [kind |-> "ok", waypoints |-> <<<<target_x, target_y>>>>]
    ELSE With(find_path_to_room(ds, ord, agent.current_room, target_room),
              LAMBDA room_path : waypoints_along(ds, room_path, target_x, target_y))

\* find_path_through_doors lines 667-697, target_room the result of line 664
waypoints_to(ds, ord, agent, target_x, target_y, target_room) ==
    IF target_room = NoRoom THEN [kind |-> "ok", waypoints |-> <<>>]
    ELSE IF agent.current_room = target_room
    THEN IF FloatEq(agent.x, agent.fx, target_x) /\ FloatEq(agent.y, agent.fy, target_y)
         THEN [kind |-> "ok", waypoints |-> <<>>]
         ELSE [kind |-> "ok", waypoints |-> <<<<target_x, target_y>>>>]
    ELSE With(find_path_to_room(ds, ord, agent.current_room, target_room),
              LAMBDA room_path : waypoints_along(ds, room_path, target_x, target_y))

\* result: kind "ok" with the waypoint list, or the exception raised
find_path_through_doors(rs, ds, ord, agent, target_x, target_y) ==
    With(get_room_at_position(rs, ds, <<target_x, target_y>>, NoRoom),
         LAMBDA target_room : waypoints_to(ds, ord, agent, target_x, target_y, target_room))

----------------------------------------------------------------------------
(* plan.py, agents.py *)

\* random.randint(1, 4) of a Stay plan
StayMaxTurns == 4

\* plan.py lines 5-9: the plan types board.py tests and assigns
PlanType ==
    [STAY |-> "plan.PlanType.STAY", GOTO_ROOM |-> "plan.PlanType.GOTO_ROOM",
     FIND_AGENT |-> "plan.PlanType.FIND_AGENT",
     GO_TO_CAULDRON |-> "plan.PlanType.GO_TO_CAULDRON"]

\* agents.py lines 12-15: the class that replaces the imported PlanType inside
\* agents.py.  Its members are the types of the plans choose_random_plan
\* makes, and are equal to no member of plan.PlanType.
AgentsPlanType ==
    [STAY |-> "agents.PlanType.STAY", GOTO_ROOM |-> "agents.PlanType.GOTO_ROOM",
     FIND_AGENT |-> "agents.PlanType.FIND_AGENT"]

Plan(type, target, turns_remaining, visited_rooms) ==
    [type |-> type, target |-> target, turns_remaining |-> turns_remaining,
     visited_rooms |-> visited_rooms]

Agent(x, y, current_room, role) ==
    [x |-> x * StepsPerCell, fx |-> 0, y |-> y * StepsPerCell, fy |-> 0,
     current_room |-> current_room, plan |-> NoPlan, stuck |-> FALSE,
     target_x |-> None, target_y |-> None, waypoints |-> <<>>, role |-> role,
     memory |-> <<>>, last_conversation_turn |-> 0 - 1]

\* a call's outcome: the agent record as the call left it and the exception
\* that left the call, "none" if it returned
Done(agent) == [agent |-> agent, exc |-> "none"]
Raised(agent, exc) == [agent |-> agent, exc |-> exc]

\* set_target lines 43-53, found the result of line 42
install_waypoints(agent, found) ==
    IF found.kind # "ok" THEN Raised(agent, found.kind)
    ELSE IF found.waypoints # <<>>
    THEN Done([agent EXCEPT !.target_x = found.waypoints[1][1],
                            !.target_y = found.waypoints[1][2],
                            !.waypoints = Tail(found.waypoints)])
    ELSE Done(agent)

set_target(agent, x, y) ==
    IF FloatEq(agent.x, agent.fx, x) /\ FloatEq(agent.y, agent.fy, y) THEN Done(agent)
    ELSE With(find_path_through_doors(rooms, doors, hashOrder, agent, x, y),
              LAMBDA found : install_waypoints(agent, found))

\* the plan assigned after a set_target call that returned (st its outcome)
install_plan(st, plan) ==
    IF st.exc # "none" THEN st ELSE Done([st.agent EXCEPT !.plan = plan])

\* choose_random_plan lines 187-193
install_goto_room(st, plan) ==
    IF st.exc # "none" THEN st ELSE Done([st.agent EXCEPT !.plan = plan, !.stuck = FALSE])

\* choose_random_plan lines 176-197, for the choice target_room
goto_room_choices(agent, target_room) ==
    LET possible_positions ==
            {pos \in rooms[target_room] :
                pos # <<FloatInt(agent.x, agent.fx), FloatInt(agent.y, agent.fy)>>}
    IN  IF possible_positions = {} THEN {Done([agent EXCEPT !.stuck = TRUE])}
        ELSE {With(set_target(agent, target_pos[1], target_pos[2]),
                   LAMBDA st : install_goto_room(st, Plan(AgentsPlanType.GOTO_ROOM, target_room,
                                                          0, {agent.current_room})))
              : target_pos \in possible_positions}

\* choose_random_plan as it would be if the agent's own room were a candidate
choose_random_plan_any_room(agent) ==
    LET plan_types == IF agent.stuck THEN {AgentsPlanType.GOTO_ROOM}
                      ELSE {AgentsPlanType.STAY, AgentsPlanType.GOTO_ROOM}
        stay == {Done([agent EXCEPT !.plan = Plan(AgentsPlanType.STAY, NoRoom, n, {}),
                                    !.stuck = FALSE]) : n \in 1..StayMaxTurns}
        goto == UNION {goto_room_choices(agent, r) : r \in DOMAIN rooms}
    IN  (IF AgentsPlanType.STAY \in plan_types THEN stay ELSE {}) \cup goto

\* every outcome of choose_random_plan, one per resolution of the random choices
choose_random_plan(agent) ==
    LET plan_types == IF agent.stuck THEN {AgentsPlanType.GOTO_ROOM}
                      ELSE {AgentsPlanType.STAY, AgentsPlanType.GOTO_ROOM}
        available_rooms == DOMAIN rooms \ {agent.current_room}
        stay == {Done([agent EXCEPT !.plan = Plan(AgentsPlanType.STAY, NoRoom, n, {}),
                                    !.stuck = FALSE]) : n \in 1..StayMaxTurns}
        goto == IF available_rooms = {} THEN {Done(agent)}
                ELSE UNION {goto_room_choices(agent, r) : r \in available_rooms}
    IN  (IF AgentsPlanType.STAY \in plan_types THEN stay ELSE {}) \cup goto

\* ensure_plan as it would be if it chose a plan whatever plan the agent holds
ensure_plan_always(agent) == choose_random_plan(agent)

ensure_plan(agent) ==
    IF agent.plan = NoPlan THEN choose_random_plan(agent) ELSE {Done(agent)}

\* a call of update_position: the outcome and the value returned
Returned(out, ret) == [agent |-> out.agent, exc |-> out.exc, ret |-> ret]

\* update_position lines 101-106: pop the head waypoint and target next_waypoint
pop_waypoint(agent, next_waypoint) ==
    IF agent.waypoints = <<>> THEN Raised(agent, "IndexError")
    ELSE Done([agent EXCEPT !.waypoints = Tail(agent.waypoints),
                            !.target_x = next_waypoint[1],
                            !.target_y = next_waypoint[2]])

\* update_position as it would be if the room changed at the door position,
\* without the threshold test
cross_door_unchecked(agent, next_waypoint, next_room, door, door_pos) ==
    Done([agent EXCEPT !.current_room = next_room,
                       !.waypoints = Tail(agent.waypoints),
                       !.target_x = next_waypoint[1],
                       !.target_y = next_waypoint[2]])

\* update_position lines 67-106, door the result of line 64 and door_pos of
\* line 66.  The crossed branch (lines 76-80) does not return: control falls
\* through to the pop of line 102, which pops a second waypoint.
cross_door(agent, next_waypoint, next_room, door, door_pos) ==
    LET crossed ==
            IF is_horizontal(door)
            THEN \/ agent.current_room = door.room1 /\ FloatGt(agent.y, agent.fy, door_pos[2])
                 \/ agent.current_room = door.room2 /\ FloatLt(agent.y, agent.fy, door_pos[2])
            ELSE \/ agent.current_room = door.room1 /\ FloatGt(agent.x, agent.fx, door_pos[1])
                 \/ agent.current_room = door.room2 /\ FloatLt(agent.x, agent.fx, door_pos[1])
        side == IF agent.current_room = door.room1 THEN 1 ELSE 0 - 1
        entry_pos == IF is_horizontal(door)
                     THEN <<door_pos[1], door_pos[2] + side>>
                     ELSE <<door_pos[1] + side, door_pos[2]>>
    IN  IF crossed
        THEN With([agent EXCEPT !.current_room = next_room,
                                !.waypoints = Tail(agent.waypoints),
                                !.target_x = next_waypoint[1],
                                !.target_y = next_waypoint[2]],
                  LAMBDA entered : pop_waypoint(entered, next_waypoint))
        ELSE IF FloatEq(agent.x, agent.fx, entry_pos[1]) /\ FloatEq(agent.y, agent.fy, entry_pos[2])
        THEN Done([agent EXCEPT !.current_room = next_room,
                                !.waypoints = Tail(agent.waypoints),
                                !.target_x = next_waypoint[1],
                                !.target_y = next_waypoint[2]])
        ELSE Done([agent EXCEPT !.target_x = entry_pos[1], !.target_y = entry_pos[2]])

\* update_position lines 64-106
at_door(agent, next_waypoint, next_room, door) ==
    With(get_door_position(doors, door.room1, door.room2),
         LAMBDA door_pos : cross_door(agent, next_waypoint, next_room, door, door_pos))

\* update_position lines 62-106: the next waypoint lies in another room and a
\* door joins it to current_room
through_door(agent, next_waypoint, next_room) ==
    With(get_door_between_rooms(doors, agent.current_room, next_room),
         LAMBDA door : at_door(agent, next_waypoint, next_room, door))

\* update_position as it would be if the room of the next waypoint were
\* taken over whether or not a door leads there
next_waypoint_jump(agent, next_waypoint, next_room) ==
    IF next_room # agent.current_room /\ next_room # NoRoom
    THEN Done([agent EXCEPT !.current_room = next_room,
                            !.waypoints = Tail(agent.waypoints),
                            !.target_x = next_waypoint[1],
                            !.target_y = next_waypoint[2]])
    ELSE pop_waypoint(agent, next_waypoint)

\* update_position lines 62-106, next_room the result of line 60
next_waypoint_step(agent, next_waypoint, next_room) ==
    IF next_room # agent.current_room /\ has_door(doors, agent.current_room, next_room)
    THEN through_door(agent, next_waypoint, next_room)
    ELSE pop_waypoint(agent, next_waypoint)

\* update_position as it would be if it reported arrival whenever it finds no
\* immediate target, waypoints left or not
update_position_idle_arrived(agent) ==
    IF agent.waypoints # <<>>
    THEN {With(get_room_at_position(rooms, doors, agent.waypoints[1], NoRoom),
               LAMBDA next_room :
                   With(next_waypoint_step(agent, agent.waypoints[1], next_room),
                        LAMBDA out : Returned(out, TRUE)))}
    ELSE {Returned(out, TRUE) : out \in ensure_plan(agent)}

\* update_position lines 57-109: no immediate target
update_position_idle(agent) ==
    IF agent.waypoints # <<>>
    THEN {With(get_room_at_position(rooms, doors, agent.waypoints[1], NoRoom),
               LAMBDA next_room :
                   With(next_waypoint_step(agent, agent.waypoints[1], next_room),
                        LAMBDA out : Returned(out, FALSE)))}
    ELSE {Returned(out, TRUE) : out \in ensure_plan(agent)}

\* update_position as it would be if it moved along the axis with the larger
\* displacement, horizontally on a tie
move_step_larger_axis(agent, cx, cy) ==
    LET dx == agent.target_x * StepsPerCell - agent.x
        dy == agent.target_y * StepsPerCell - agent.y
        nx == IF dx > 0 THEN agent.x + 1 ELSE agent.x - 1
        ny == IF dy > 0 THEN agent.y + 1 ELSE agent.y - 1
    IN  IF cx = "lt" /\ cy = "lt"
        THEN With([agent EXCEPT !.x = agent.target_x * StepsPerCell, !.fx = 0,
                                !.y = agent.target_y * StepsPerCell, !.fy = 0,
                                !.target_x = None, !.target_y = None],
                  LAMBDA reached : update_position_idle(reached))
        ELSE IF Abs(dx) >= Abs(dy) /\ cx = "gt"
        THEN {Returned(Done([agent EXCEPT !.x = nx, !.fx = f]), FALSE) : f \in FloatSides(nx)}
        ELSE IF cy = "gt"
        THEN {Returned(Done([agent EXCEPT !.y = ny, !.fy = f]), FALSE) : f \in FloatSides(ny)}
        ELSE IF cx = "gt"
        THEN {Returned(Done([agent EXCEPT !.x = nx, !.fx = f]), FALSE) : f \in FloatSides(nx)}
        ELSE {Returned(Done(agent), FALSE)}

\* update_position as it would be if it reported arrival at the immediate
\* target without looking for the next waypoint
move_step_no_next_waypoint(agent, cx, cy) ==
    LET dx == agent.target_x * StepsPerCell - agent.x
        dy == agent.target_y * StepsPerCell - agent.y
    IN  IF cx = "lt" /\ cy = "lt"
        THEN {Returned(Done([agent EXCEPT !.x = agent.target_x * StepsPerCell, !.fx = 0,
                                          !.y = agent.target_y * StepsPerCell, !.fy = 0,
                                          !.target_x = None, !.target_y = None]), TRUE)}
        ELSE IF cx = "gt"
        THEN LET nx == IF dx > 0 THEN agent.x + 1 ELSE agent.x - 1
             IN  {Returned(Done([agent EXCEPT !.x = nx, !.fx = f]), FALSE) : f \in FloatSides(nx)}
        ELSE IF cy = "gt"
        THEN LET ny == IF dy > 0 THEN agent.y + 1 ELSE agent.y - 1
             IN  {Returned(Done([agent EXCEPT !.y = ny, !.fy = f]), FALSE) : f \in FloatSides(ny)}
        ELSE {Returned(Done(agent), FALSE)}

\* update_position lines 111-131, for one outcome cx, cy of the comparisons of
\* abs(dx), abs(dy) with speed
move_step(agent, cx, cy) ==
    LET dx == agent.target_x * StepsPerCell - agent.x
        dy == agent.target_y * StepsPerCell - agent.y
    IN  IF cx = "lt" /\ cy = "lt"
        THEN With([agent EXCEPT !.x = agent.target_x * StepsPerCell, !.fx = 0,
                                !.y = agent.target_y * StepsPerCell, !.fy = 0,
                                !.target_x = None, !.target_y = None],
                  LAMBDA reached : update_position_idle(reached))
        ELSE IF cx = "gt"
        THEN LET nx == IF dx > 0 THEN agent.x + 1 ELSE agent.x - 1
             IN  {Returned(Done([agent EXCEPT !.x = nx, !.fx = f]), FALSE) : f \in FloatSides(nx)}
        ELSE IF cy = "gt"
        THEN LET ny == IF dy > 0 THEN agent.y + 1 ELSE agent.y - 1
             IN  {Returned(Done([agent EXCEPT !.y = ny, !.fy = f]), FALSE) : f \in FloatSides(ny)}
        ELSE {Returned(Done(agent), FALSE)}

update_position(agent) ==
    IF agent.target_x = None \/ agent.target_y = None
    THEN update_position_idle(agent)
    ELSE UNION {move_step(agent, cx, cy) :
                    cx \in FloatCmp(agent.target_x * StepsPerCell - agent.x),
                    cy \in FloatCmp(agent.target_y * StepsPerCell - agent.y)}

needs_new_target(agent) == agent.target_x = None /\ agent.target_y = None

----------------------------------------------------------------------------
(* board.py: plans *)

\* the board of the single-agent runs, as load_board reads it from
\*     AABBCC D
\*     AA BCC D
\*     EE     D
\*     E      D
\* rooms A, B, C in a line, E below A, and D that no door reaches
BoardRooms ==
    [r \in {"A", "B", "C", "D", "E"} |->
        CASE r = "A" -> {<<0, 0>>, <<1, 0>>, <<0, 1>>, <<1, 1>>}
          [] r = "B" -> {<<2, 0>>, <<3, 0>>, <<3, 1>>}
          [] r = "C" -> {<<4, 0>>, <<5, 0>>, <<4, 1>>, <<5, 1>>}
          [] r = "D" -> {<<7, 0>>, <<7, 1>>, <<7, 2>>, <<7, 3>>}
          [] r = "E" -> {<<0, 2>>, <<1, 2>>, <<0, 3>>}]

\* its door file: A-B and B-C vertical, A-E horizontal
BoardDoors ==
    <<Door("A", "B", 2, 0, 2, 1), Door("B", "C", 4, 0, 4, 1), Door("A", "E", 0, 2, 1, 2)>>

BoardOrder == <<"A", "B", "C", "D", "E">>

\* the cauldron of that board
BoardCauldron == [x |-> 3, y |-> 0, ingredients |-> 0]

\* cauldron.has_enough_ingredients(3)
VoteThreshold == 3

(* cauldron.py *)
deposit_ingredient(c) == [c EXCEPT !.ingredients = c.ingredients + 1]

\* has_enough_ingredients as it would be if one ingredient were enough
has_more_ingredients(c, threshold) == c.ingredients > threshold

has_any_ingredient(c, threshold) == c.ingredients >= 1

has_enough_ingredients(c, threshold) == c.ingredients >= threshold

at_cauldron(agent) ==
    FloatEq(agent.x, agent.fx, cauldron.x) /\ FloatEq(agent.y, agent.fy, cauldron.y)

\* an outcome of execute_plan: deposited tells whether deposit_ingredient ran
Executed(out, deposited) ==
    [agent |-> out.agent, exc |-> out.exc, deposited |-> deposited]

\* execute_plan lines 394-395, st the outcome of line 393
resumed(st) ==
    IF st.exc = "none" /\ st.agent.target_x # None
    THEN Done([st.agent EXCEPT !.waypoints = SubSeq(st.agent.waypoints, 2,
                                                     Len(st.agent.waypoints))])
    ELSE st

\* execute_plan lines 390-395
resume_waypoints(agent) ==
    IF agent.target_x = None /\ agent.target_y = None /\ agent.waypoints # <<>>
    THEN With(set_target(agent, agent.waypoints[1][1], agent.waypoints[1][2]),
              LAMBDA st : resumed(st))
    ELSE Done(agent)

\* execute_plan lines 399-402
stay_step(agent) ==
    IF agent.plan.turns_remaining - 1 <= 0
    THEN [agent EXCEPT !.plan = NoPlan]
    ELSE [agent EXCEPT !.plan.turns_remaining = agent.plan.turns_remaining - 1]

\* execute_plan lines 411-414, new_room the result of line 410
enter_room(agent, new_room) ==
    IF new_room # NoRoom /\ new_room # agent.current_room
    THEN [agent EXCEPT !.current_room = new_room,
                       !.plan.visited_rooms = agent.plan.visited_rooms \cup {new_room}]
    ELSE agent

\* execute_plan lines 409-414
recompute_room(agent) ==
    With(get_room_at_position(rooms, doors,
                              <<FloatInt(agent.x, agent.fx), FloatInt(agent.y, agent.fy)>>,
                              agent.current_room),
         LAMBDA new_room : enter_room(agent, new_room))

\* execute_plan lines 416-428
goto_room_complete(agent) ==
    IF /\ agent.current_room = agent.plan.target
       /\ agent.waypoints = <<>>
       /\ agent.target_x = None
       /\ agent.target_y = None
    THEN With(set_target(agent, cauldron.x, cauldron.y),
              LAMBDA st : install_plan(st, Plan(PlanType.GO_TO_CAULDRON, "cauldron", 0, {})))
    ELSE Done(agent)

\* execute_plan lines 404-428
goto_room_step(agent) ==
    With(recompute_room(agent), LAMBDA moved : goto_room_complete(moved))

\* lines 380-388 as they would be if every agent at the cauldron deposited
deposit_step_any_role(st) ==
    IF st.exc = "none" /\ at_cauldron(st.agent)
    THEN Executed(Done([st.agent EXCEPT !.plan = NoPlan]), TRUE)
    ELSE Executed(st, FALSE)

\* execute_plan lines 380-388, st the outcome of line 379
deposit_step(st) ==
    IF st.exc = "none" /\ at_cauldron(st.agent)
    THEN Executed(Done([st.agent EXCEPT !.plan = NoPlan]), st.agent.role = "witch")
    ELSE Executed(st, FALSE)

\* execute_plan lines 377-388: the whole go_to_cauldron branch
cauldron_step(agent) ==
    With(set_target(agent, cauldron.x, cauldron.y), LAMBDA st : deposit_step(st))

\* execute_plan lines 397-428, planned an outcome of ensure_plan
planned_step(planned) ==
    IF planned.exc # "none" THEN Executed(planned, FALSE)
    ELSE IF planned.agent.plan = NoPlan
    THEN Executed(Raised(planned.agent, "AttributeError"), FALSE)
    ELSE IF planned.agent.plan.type = PlanType.STAY
    THEN With(stay_step(planned.agent), LAMBDA stayed : Executed(Done(stayed), FALSE))
    ELSE IF planned.agent.plan.type = PlanType.GOTO_ROOM
    THEN With(goto_room_step(planned.agent), LAMBDA st : Executed(st, FALSE))
    ELSE Executed(planned, FALSE)

\* execute_plan lines 397-428, after lines 390-395 left the outcome st
after_resume(st) ==
    IF st.exc # "none" THEN {Executed(st, FALSE)}
    ELSE {planned_step(planned) : planned \in ensure_plan(st.agent)}

\* execute_plan lines 389-428, up to the final update_position
plan_step(agent) == With(resume_waypoints(agent), LAMBDA st : after_resume(st))

\* execute_plan line 430 after the outcome b of the lines before it
final_update(b) ==
    IF b.exc # "none" THEN {b}
    ELSE {Executed(u, b.deposited) : u \in update_position(b.agent)}

\* every outcome of execute_plan(agent); the update_position of line 430
\* belongs to the else branch of line 389
execute_plan(agent) ==
    IF agent.plan = NoPlan
    THEN {Executed(Raised(agent, "AttributeError"), FALSE)}
    ELSE IF agent.plan.type = PlanType.GO_TO_CAULDRON
    THEN {cauldron_step(agent)}
    ELSE UNION {final_update(b) : b \in plan_step(agent)}

\* every outcome of choose_new_plan(agent)
choose_new_plan(agent) ==
    IF agent.plan = NoPlan \/ agent.plan.type = PlanType.STAY
    THEN IF DOMAIN rooms \ {agent.current_room} # {}
         THEN UNION {{With(set_target(agent, target_pos[1], target_pos[2]),
                           LAMBDA st : install_plan(st, Plan(PlanType.GOTO_ROOM, target_room, 0,
                                                             {agent.current_room})))
                      : target_pos \in rooms[target_room]}
                     : target_room \in DOMAIN rooms \ {agent.current_room}}
         ELSE {With(set_target(agent, cauldron.x, cauldron.y),
                    LAMBDA st : install_plan(st, Plan(PlanType.GO_TO_CAULDRON, "cauldron", 0, {})))}
    ELSE {Done(agent)}

\* update() lines 601-606 for one agent
update_agent(agent) ==
    UNION {IF u.exc # "none" THEN {Raised(u.agent, u.exc)}
           ELSE IF u.ret /\ needs_new_target(u.agent) THEN choose_new_plan(u.agent)
           ELSE {Done(u.agent)}
           : u \in update_position(agent)}

RECURSIVE SortedSeq(_)
\* the ids of S in list order
SortedSeq(S) ==
    IF S = {} THEN <<>>
    ELSE LET m == CHOOSE a \in S : \A b \in S : a <= b
         IN  <<m>> \o SortedSeq(S \ {m})

RECURSIVE update_all(_, _)
\* update(): the loop over self.agents; an exception ends it
update_all(ids, ags) ==
    IF ids = <<>> THEN {[agents |-> ags, exc |-> "none"]}
    ELSE UNION {IF o.exc # "none"
                THEN {[agents |-> [ags EXCEPT ![Head(ids)] = o.agent], exc |-> o.exc]}
                ELSE update_all(Tail(ids), [ags EXCEPT ![Head(ids)] = o.agent])
                : o \in update_agent(ags[Head(ids)])}

----------------------------------------------------------------------------
(* board.py run(), controller.py *)

\* run() lines 574-575 as they would be if update() ran paused or not
UpdateWhilePaused ==
    /\ pc = "update" /\ crashed = "none"
    /\ \E o \in update_all(SortedSeq(DOMAIN agents), agents) :
          /\ agents' = o.agents
          /\ crashed' = o.exc
          /\ touched' = {a \in DOMAIN agents : o.agents[a] # agents[a]}
    /\ pc' = "events"
    /\ UNCHANGED <<talk, paused, selected_agent, clock, controller, rooms, doors, hashOrder,
                   cauldron, voted, ticked, query, result, tokens>>

\* run() lines 574-575: self.update(), when not paused
Update ==
    /\ pc = "update" /\ crashed = "none" /\ ~paused
    /\ \E o \in update_all(SortedSeq(DOMAIN agents), agents) :
          /\ agents' = o.agents
          /\ crashed' = o.exc
          /\ touched' = {a \in DOMAIN agents : o.agents[a] # agents[a]}
    /\ pc' = "events"
    /\ UNCHANGED <<talk, paused, selected_agent, clock, controller, rooms, doors, hashOrder,
                   cauldron, voted, ticked, query, result, tokens>>

\* send_event as it would be if the event advanced every agent
send_event_all(a) ==
    \E o \in update_all(SortedSeq(DOMAIN agents), agents) :
        /\ agents' = o.agents
        /\ cauldron' = cauldron
        /\ crashed' = o.exc
        /\ ticked' = a

\* send_event with random.choice(agents) = a: execute_plan(a)
send_event(a) ==
    \E o \in execute_plan(agents[a]) :
        /\ agents' = [agents EXCEPT ![a] = o.agent]
        /\ cauldron' = IF o.deposited THEN deposit_ingredient(cauldron) ELSE cauldron
        /\ crashed' = o.exc
        /\ ticked' = a

\* GameController.__init__: the first interval, in ms
TickRateMs == 600

\* handle_events line 22: the ends of the range the next interval is drawn from
MinInterval == 250
MaxInterval == 750

\* GameController.__init__
GameController == [tick_rate_ms |-> TickRateMs, last_tick |-> 0, turn |-> 0]

\* run() line 576, handle_events: the interval has elapsed, the scheduler
\* fires.  Tick and NoTick leave the time out: the comparison of line 20 goes
\* either way and the controller's fields, which nothing but handle_events
\* and the conversations read, keep their values; handle_events below is the
\* same call with the time and the fields kept.
Tick ==
    /\ pc = "events" /\ crashed = "none" /\ ~paused
    /\ IF DOMAIN agents = {}
       THEN /\ crashed' = "IndexError"
            /\ UNCHANGED <<agents, cauldron, ticked>>
       ELSE \E a \in DOMAIN agents : send_event(a)
    /\ pc' = "check"
    /\ UNCHANGED <<talk, paused, selected_agent, clock, controller, rooms, doors, hashOrder,
                   voted, touched, query, result, tokens>>

\* handle_events: the interval has not elapsed
NoTick ==
    /\ pc = "events" /\ crashed = "none" /\ ~paused
    /\ pc' = "check"
    /\ UNCHANGED <<talk, paused, selected_agent, clock, controller, rooms, doors, hashOrder,
                   agents, cauldron, voted, ticked,
                   touched, crashed, query, result, tokens>>

\* the time of one pass of run()'s loop, in ms
FrameMs == 200

\* the program is followed up to this reading of pygame.time.get_ticks()
MaxClock == 2400

\* the times a pass of the loop can take
FrameTimes == {FrameMs, 2 * FrameMs}

\* the draws of random.randint(250, 750) followed
Intervals == {MinInterval, MaxInterval}

\* handle_events lines 21-24 for current_time, the interval drawn and the
\* agent drawn: an exception of execute_plan leaves the turn as it is
fire(current_time, interval, a) ==
    /\ send_event(a)
    /\ controller' = [last_tick |-> current_time,
                      tick_rate_ms |-> interval,
                      turn |-> IF crashed' = "none" THEN controller.turn + 1
                               ELSE controller.turn]

\* run() line 576: handle_events with the time read from the clock
handle_events ==
    /\ pc = "events" /\ crashed = "none" /\ ~paused
    /\ \E current_time \in {clock + d : d \in FrameTimes} :
          /\ current_time <= MaxClock
          /\ clock' = current_time
          /\ IF current_time - controller.last_tick >= controller.tick_rate_ms
             THEN \E interval \in Intervals :
                      IF DOMAIN agents = {}
                      THEN /\ crashed' = "IndexError"
                           /\ controller' = [controller EXCEPT !.last_tick = current_time,
                                                               !.tick_rate_ms = interval]
                           /\ UNCHANGED <<agents, cauldron, ticked>>
                      ELSE \E a \in DOMAIN agents : fire(current_time, interval, a)
             ELSE UNCHANGED <<agents, cauldron, ticked, crashed, controller>>
    /\ pc' = "check"
    /\ UNCHANGED <<talk, paused, selected_agent, rooms, doors, hashOrder, voted, touched, query,
                   result, tokens>>

\* Agent.vote, which voting_phase awaits and agents.py does not hold: the
\* agent a voter may name, None for no vote
vote(voter) == DOMAIN agents \cup {None}

\* voting_phase lines 527-539: the agent named most often, the one named
\* first among equals; None when no vote was cast
most_voted(ballots) ==
    LET named == {ballots[v] : v \in DOMAIN ballots} \ {None}
        count(t) == Cardinality({v \in DOMAIN ballots : ballots[v] = t})
        first(t) == CHOOSE v \in DOMAIN ballots :
                        ballots[v] = t /\ \A w \in DOMAIN ballots : ballots[w] = t => v <= w
    IN  IF named = {} THEN None
        ELSE CHOOSE t \in named :
                \A u \in named \ {t} :
                    count(t) > count(u) \/ (count(t) = count(u) /\ first(t) < first(u))

\* handle_vote_outcome: the agent list without the agent voted out
handle_vote_outcome(agent_id) == [a \in DOMAIN agents \ {agent_id} |-> agents[a]]

\* run() lines 579-586: the threshold consumer
CheckCauldron ==
    /\ pc = "check" /\ crashed = "none"
    /\ IF has_enough_ingredients(cauldron, VoteThreshold) /\ ~voted
       THEN /\ \E ballots \in [DOMAIN agents -> DOMAIN agents \cup {None}] :
                 /\ \A v \in DOMAIN agents : ballots[v] \in vote(v)
                 /\ agents' = handle_vote_outcome(most_voted(ballots))
            /\ cauldron' = [cauldron EXCEPT !.ingredients = 0]
            /\ voted' = TRUE
       ELSE /\ voted' = FALSE
            /\ UNCHANGED <<agents, cauldron>>
    /\ pc' = "update"
    /\ ticked' = None
    /\ touched' = {}
    /\ UNCHANGED <<talk, paused, selected_agent, clock, controller, rooms, doors, hashOrder,
                   crashed, query, result, tokens>>

\* run() lines 567-570: a click on the stop button
click_button ==
    /\ pc = "update" /\ crashed = "none"
    /\ paused' = ~paused
    /\ UNCHANGED <<talk, selected_agent, clock, controller, rooms, doors, hashOrder, agents,
                   cauldron, voted, pc, ticked, touched, crashed, query, result, tokens>>

\* the first agent of the list whose cell rectangle holds the point pos, in
\* speed steps; None when there is none
agent_at(pos) ==
    LET hit == {a \in DOMAIN agents :
                   /\ agents[a].x <= pos[1] /\ pos[1] < agents[a].x + StepsPerCell
                   /\ agents[a].y <= pos[2] /\ pos[2] < agents[a].y + StepsPerCell}
    IN  IF hit = {} THEN None ELSE CHOOSE a \in hit : \A b \in hit : a <= b

\* the points clicked: the middle of every cell of the board
ClickPoints ==
    {<<c[1] * StepsPerCell + StepsPerCell \div 2, c[2] * StepsPerCell + StepsPerCell \div 2>>
     : c \in UNION {rooms[r] : r \in DOMAIN rooms}}

\* run() lines 571-572, handle_agent_click: a click elsewhere than on the button
handle_agent_click ==
    /\ pc = "update" /\ crashed = "none"
    /\ \E pos \in ClickPoints : selected_agent' = agent_at(pos)
    /\ UNCHANGED <<talk, paused, clock, controller, rooms, doors, hashOrder, agents,
                   cauldron, voted, pc, ticked, touched, crashed, query, result, tokens>>

\* agents.py line 141: the number of conversations an agent remembers
MemoryLimit == 10

\* remember_conversation as it would be if it dropped the newest entry of a
\* full memory
remember_conversation_keep_oldest(agent, other_id, dialogue) ==
    IF Len(agent.memory) >= MemoryLimit THEN agent
    ELSE [agent EXCEPT !.memory = Append(agent.memory, <<"With", other_id, dialogue>>)]

\* Agent.remember_conversation; the entry f"With {other_id}: {dialogue}" is
\* kept as its parts
remember_conversation(agent, other_id, dialogue) ==
    With(Append(agent.memory, <<"With", other_id, dialogue>>),
         LAMBDA memory :
             [agent EXCEPT !.memory = IF Len(memory) > MemoryLimit
                                      THEN Tail(memory) ELSE memory])

\* try_conversation lines 8-9
CooldownTurns == 6
MaxDistance == 2

\* try_conversation lines 16 and 19: distance <= max_distance, both outcomes
\* where the nominal distance is max_distance and a position is off its cell
within_distance(agent1, agent2) ==
    LET dx == agent1.x - agent2.x
        dy == agent1.y - agent2.y
        d2 == dx * dx + dy * dy
        m2 == (MaxDistance * StepsPerCell) * (MaxDistance * StepsPerCell)
        exact == \A v \in {agent1.x, agent1.y, agent2.x, agent2.y} : v % StepsPerCell = 0
        sides == {agent1.fx, agent1.fy, agent2.fx, agent2.fy}
    IN  IF d2 < m2 THEN {TRUE}
        ELSE IF d2 > m2 THEN {FALSE}
        ELSE IF exact /\ sides = {0} THEN {TRUE}
        ELSE {TRUE, FALSE}

\* try_conversation lines 12-23: the pair may talk, when random.random() is
\* below conversation_chance
may_talk(agent1, agent2, current_turn) ==
    /\ agent1.current_room = agent2.current_room
    /\ TRUE \in within_distance(agent1, agent2)
    /\ current_turn - agent1.last_conversation_turn >= CooldownTurns
    /\ current_turn - agent2.last_conversation_turn >= CooldownTurns

\* run() line 577, handle_room_conversations and try_conversation up to the
\* call of line 28: a pair of agents of one room, in list order, starts to
\* talk, the pairs tried before it not talking, and generate_dialogue asks
\* text_controller for the first line.  A pass in which no pair talks
\* changes nothing.
try_conversation ==
    /\ pc = "check" /\ crashed = "none" /\ talk = NoTalk
    /\ \E a1 \in DOMAIN agents, a2 \in DOMAIN agents :
          /\ a1 < a2
          /\ may_talk(agents[a1], agents[a2], controller.turn)
          /\ talk' = [agent1 |-> a1, agent2 |-> a2, turn |-> controller.turn]
    /\ pc' = "talk"
    /\ UNCHANGED <<paused, selected_agent, clock, controller, rooms, doors, hashOrder,
                   agents, cauldron, voted, ticked, touched, crashed, query, result,
                   tokens>>

\* dialogue.py line 31: TextAPI.generate (text_api.py lines 39-46) is no
\* coroutine function, the call returns the text, and await of a str raises
\* TypeError, which leaves try_conversation, handle_room_conversations and
\* run()
generate_dialogue ==
    /\ pc = "talk" /\ crashed = "none" /\ talk # NoTalk
    /\ crashed' = "TypeError"
    /\ UNCHANGED <<talk, paused, selected_agent, clock, controller, rooms, doors,
                   hashOrder, agents, cauldron, voted, pc, ticked, touched, query,
                   result, tokens>>

\* initialize_agents: every agent in a random cell of a random room, one of
\* them the impostor
initialize_agents(rs, ids) ==
    {[a \in ids |->
        Agent(place[a][2][1], place[a][2][2], place[a][1],
              IF a = impostor THEN "impostor" ELSE "witch")]
     : place \in [ids -> {<<r, c>> : r \in DOMAIN rs, c \in UNION {rs[q] : q \in DOMAIN rs}}
                            \cap UNION {{<<r, c>> : c \in rs[r]} : r \in DOMAIN rs}],
       impostor \in ids}

\* BoardGame.__init__ on the given board with the given agents
InitOn(rs, ds, ord, pot, ids) ==
    /\ rooms = rs
    /\ doors = ds
    /\ hashOrder = ord
    /\ agents \in initialize_agents(rs, ids)
    /\ cauldron = pot
    /\ voted = FALSE
    /\ pc = "update"
    /\ ticked = None
    /\ touched = {}
    /\ crashed = "none"
    /\ query = <<>>
    /\ result = [kind |-> "none", path |-> <<>>]
    /\ tokens = <<>>
    /\ clock = 0
    /\ controller = GameController
    /\ paused = FALSE
    /\ selected_agent = None
    /\ talk = NoTalk

\* one agent on the board of five rooms
Init == InitOn(BoardRooms, BoardDoors, BoardOrder, BoardCauldron, {0})

\* two agents on a board of two rooms, A of one cell and B of two
PairRooms == [r \in {"A", "B"} |-> IF r = "A" THEN {<<0, 0>>} ELSE {<<1, 0>>, <<2, 0>>}]

PairDoors == <<Door("A", "B", 1, 0, 1, 1)>>

PairCauldron == [x |-> 2, y |-> 0, ingredients |-> 0]

InitPair == InitOn(PairRooms, PairDoors, <<"A", "B">>, PairCauldron, {0, 1})

Next == Update \/ Tick \/ NoTick \/ CheckCauldron

Spec == Init /\ [][Next]_vars

SpecPair == InitPair /\ [][Next]_vars

\* the loop of run() with the time kept, two agents on the board of two rooms
NextClock == Update \/ handle_events \/ CheckCauldron

SpecClock == InitPair /\ [][NextClock]_vars

\* two agents on a board of a single room, the row AAA; the cauldron stands
\* on a cell of the room or on a cell of no room
SoloRooms == [r \in {"A"} |-> {<<0, 0>>, <<1, 0>>, <<2, 0>>}]

SoloCauldrons ==
    {[x |-> 1, y |-> 0, ingredients |-> 0], [x |-> 1, y |-> 1, ingredients |-> 0]}

InitSolo == \E pot \in SoloCauldrons : InitOn(SoloRooms, <<>>, <<"A">>, pot, {0, 1})

SpecSolo == InitSolo /\ [][Next]_vars

\* the loop of run() with its mouse events, two agents in the single room
NextPause == NextClock \/ click_button \/ handle_agent_click

SpecPause == InitSolo /\ [][NextPause]_vars

\* the loop of run() with its conversations, two agents in the single room
NextTalk == NextClock \/ try_conversation \/ generate_dialogue

SpecTalk == InitSolo /\ [][NextTalk]_vars

\* remember_conversation on its own: up to MaxCalls calls for the first agent
\* of the single-room board, with the other agent's name and one of two lines
MaxCalls == 12

Dialogues == {"hello", "who are you"}

RememberCall ==
    /\ Len(query) < MaxCalls
    /\ \E dialogue \in Dialogues :
          /\ agents' = [agents EXCEPT ![0] = remember_conversation(agents[0], 1, dialogue)]
          /\ query' = Append(query, <<"With", 1, dialogue>>)
    /\ UNCHANGED <<talk, paused, selected_agent, clock, controller, rooms, doors, hashOrder,
                   cauldron, voted, pc, ticked, touched, crashed, result, tokens>>

MemorySpec == InitSolo /\ [][RememberCall]_vars

\* execute_plan called for any agent, as send_event and move_agents call it
CallExecutePlan ==
    /\ crashed = "none"
    /\ \E a \in DOMAIN agents : send_event(a)
    /\ UNCHANGED <<talk, paused, selected_agent, clock, controller, rooms, doors, hashOrder,
                   voted, pc, touched, query, result, tokens>>

\* update() called
CallUpdate ==
    /\ crashed = "none"
    /\ \E o \in update_all(SortedSeq(DOMAIN agents), agents) :
          /\ agents' = o.agents
          /\ crashed' = o.exc
    /\ ticked' = None
    /\ UNCHANGED <<talk, paused, selected_agent, clock, controller, rooms, doors, hashOrder,
                   cauldron, voted, pc, touched, query, result,
                   tokens>>

\* a door line with its two room names in the other order
swap_names(door) == [door EXCEPT !.room1 = door.room2, !.room2 = door.room1]

\* the door files that differ from BoardDoors only in the order in which
\* lines name their two rooms
SwapDoors ==
    {[i \in DOMAIN BoardDoors |-> IF i \in S THEN swap_names(BoardDoors[i]) ELSE BoardDoors[i]]
     : S \in SUBSET DOMAIN BoardDoors}

\* one agent on the board of five rooms, each door line naming its rooms in
\* either order
InitSwap == \E ds \in SwapDoors : InitOn(BoardRooms, ds, BoardOrder, BoardCauldron, {0})

SpecSwap == InitSwap /\ [][Next]_vars

\* the operations of BoardGame called in any order on the board of five rooms
SpecCalls == Init /\ [][CallExecutePlan \/ CallUpdate]_vars

\* the scheduler fires again and again, and picks every agent again and again
FairSpec ==
    /\ Spec
    /\ WF_vars(Update) /\ WF_vars(CheckCauldron) /\ WF_vars(Tick \/ NoTick)
    /\ SF_vars(Tick)

----------------------------------------------------------------------------
(* the path planner on its own: find_path_to_room on every door list of up  *)
(* to MaxDoors doors among four rooms, under every set iteration order      *)

MaxDoors == 4

PathRooms == {"A", "B", "C", "D"}

RECURSIVE Orders(_)
\* every order in which the rooms of S can be listed
Orders(S) ==
    IF S = {} THEN {<<>>}
    ELSE UNION {{<<r>> \o o : o \in Orders(S \ {r})} : r \in S}

\* the room pairs a door file may join, in file order
PathPairs ==
    <<<<"A", "B">>, <<"A", "C">>, <<"A", "D">>, <<"B", "C">>, <<"B", "D">>, <<"C", "D">>>>

RECURSIVE DoorList(_, _, _)
\* the door file with one line per pair of chosen, from pair i on; the pairs
\* of swapped are written second room first
DoorList(chosen, swapped, i) ==
    IF i > Len(PathPairs) THEN <<>>
    ELSE LET p == PathPairs[i]
             line == IF i \in swapped THEN Door(p[2], p[1], i, 0, i, 1)
                     ELSE Door(p[1], p[2], i, 0, i, 1)
             rest == DoorList(chosen, swapped, i + 1)
         IN  IF i \in chosen THEN <<line>> \o rest ELSE rest

PathInit ==
    /\ rooms = [r \in PathRooms |-> {}]
    /\ \E chosen \in SUBSET (1..Len(PathPairs)) :
          /\ Cardinality(chosen) <= MaxDoors
          /\ \E swapped \in SUBSET chosen : doors = DoorList(chosen, swapped, 1)
    /\ hashOrder \in Orders(PathRooms)
    /\ agents = <<>>
    /\ cauldron = BoardCauldron
    /\ voted = FALSE
    /\ pc = "query"
    /\ ticked = None
    /\ touched = {}
    /\ crashed = "none"
    /\ query = <<>>
    /\ result = [kind |-> "none", path |-> <<>>]
    /\ tokens = <<>>
    /\ clock = 0
    /\ controller = GameController
    /\ paused = FALSE
    /\ selected_agent = None
    /\ talk = NoTalk

\* one call find_path_to_room(start_room, target_room)
FindPath ==
    /\ pc = "query"
    /\ \E start_room \in PathRooms, target_room \in PathRooms :
          /\ query' = <<start_room, target_room>>
          /\ result' = find_path_to_room(doors, hashOrder, start_room, target_room)
    /\ UNCHANGED <<talk, paused, selected_agent, clock, controller, rooms, doors, hashOrder,
                   agents, cauldron, voted, pc, ticked,
                   touched, crashed, tokens>>

PathSpec == PathInit /\ [][FindPath]_vars

----------------------------------------------------------------------------
(* board-game-framework.py: the base variant.  Tokens jump from room to     *)
(* room, one execute_plan per token on every click of the Next Turn button. *)
(* doors holds the lines of the door file, each a pair of room ids; a token *)
(* id is written as the string of its number, so that a plan's target is a  *)
(* room id or a token id.                                                   *)

\* lines 10-13: the plan types of the base variant
FrameworkPlanType ==
    [STAY |-> "framework.PlanType.STAY", GOTO_ROOM |-> "framework.PlanType.GOTO_ROOM",
     FIND_TOKEN |-> "framework.PlanType.FIND_TOKEN"]

Token(x, y, current_room) ==
    [x |-> x, y |-> y, current_room |-> current_room, plan |-> NoPlan]

\* load_doors: the dict from a room to the rooms its door lines join it to
load_doors(lines) ==
    LET named == {lines[i][1] : i \in DOMAIN lines} \cup {lines[i][2] : i \in DOMAIN lines}
    IN  [r \in named |->
            {lines[i][2] : i \in {j \in DOMAIN lines : lines[j][1] = r}} \cup
            {lines[i][1] : i \in {j \in DOMAIN lines : lines[j][2] = r}}]

\* load_board line 155: Room.connected_rooms of every room of the board
connected_rooms(rs, lines) ==
    [r \in DOMAIN rs |->
        IF r \in DOMAIN load_doors(lines) THEN load_doors(lines)[r] ELSE {}]

\* find_path_to_room of the base variant, which reads Room.connected_rooms
framework_find_path_to_room(start_room, target_room) ==
    IF start_room = target_room THEN [kind |-> "path", path |-> <<start_room>>]
    ELSE bfs_loop(connected_rooms(rooms, doors), hashOrder, target_room,
                  <<<<start_room>>>>, {start_room})

\* every outcome of choose_new_plan(token): the token with the plan returned,
\* or the exception random.choice raises on an empty list
framework_choose_new_plan(toks, id) ==
    LET token == toks[id]
        available_rooms == DOMAIN rooms \ {token.current_room}
        available_tokens == DOMAIN toks \ {id}
    IN  {Done([token EXCEPT !.plan = Plan(FrameworkPlanType.STAY, NoRoom, n, {})])
         : n \in 1..StayMaxTurns}
        \cup
        (IF available_rooms = {} THEN {Raised(token, "IndexError")}
         ELSE {Done([token EXCEPT !.plan = Plan(FrameworkPlanType.GOTO_ROOM, target_room, 0,
                                                {token.current_room})])
               : target_room \in available_rooms})
        \cup
        (IF available_tokens = {} THEN {Raised(token, "IndexError")}
         ELSE {Done([token EXCEPT !.plan = Plan(FrameworkPlanType.FIND_TOKEN, target_token, 0,
                                                {token.current_room})])
               : target_token \in available_tokens})

\* get_unvisited_connected_room as it would be if it drew from all connected
\* rooms, visited or not
framework_get_any_connected_room(token) ==
    connected_rooms(rooms, doors)[token.current_room]

\* get_unvisited_connected_room: the rooms random.choice may return, none
\* when the room has no door
framework_get_unvisited_connected_room(token) ==
    LET connected == connected_rooms(rooms, doors)[token.current_room]
        unvisited == connected \ token.plan.visited_rooms
    IN  IF unvisited # {} THEN unvisited ELSE connected

\* the token in a random cell of next_room
jump(token, next_room) ==
    {[token EXCEPT !.x = new_pos[1], !.y = new_pos[2], !.current_room = next_room]
     : new_pos \in rooms[next_room]}

\* execute_plan lines 298-302
framework_stay_step(token) ==
    IF token.plan.turns_remaining - 1 <= 0 THEN [token EXCEPT !.plan = NoPlan]
    ELSE [token EXCEPT !.plan.turns_remaining = @ - 1]

\* execute_plan lines 304-315
framework_goto_room_step(token) ==
    LET path == framework_find_path_to_room(token.current_room, token.plan.target)
    IN  IF path.kind = "KeyError" THEN {Raised(token, "KeyError")}
        ELSE IF path.kind = "path" /\ Len(path.path) > 1
        THEN {Done(moved) : moved \in jump(token, path.path[2])}
        ELSE {Done([token EXCEPT !.plan = NoPlan])}

\* lines 324-333 as they would be if the room entered were all the plan kept
find_step_forgetful(token) ==
    IF framework_get_unvisited_connected_room(token) = {}
    THEN {Done([token EXCEPT !.plan = NoPlan])}
    ELSE UNION {{Done([moved EXCEPT !.plan.visited_rooms = {next_room}])
                 : moved \in jump(token, next_room)}
                : next_room \in framework_get_unvisited_connected_room(token)}

\* execute_plan lines 324-333: move on to a connected room
find_step(token) ==
    IF framework_get_unvisited_connected_room(token) = {}
    THEN {Done([token EXCEPT !.plan = NoPlan])}
    ELSE UNION {{Done([moved EXCEPT !.plan.visited_rooms = @ \cup {next_room}])
                 : moved \in jump(token, next_room)}
                : next_room \in framework_get_unvisited_connected_room(token)}

\* execute_plan lines 317-333
find_token_step(toks, token) ==
    IF token.current_room = toks[token.plan.target].current_room
    THEN {Done([token EXCEPT !.plan = NoPlan])}
    ELSE find_step(token)

\* every outcome of the base variant's execute_plan(token)
framework_execute_plan(toks, id) ==
    IF toks[id].plan.type = NoPlan.type THEN framework_choose_new_plan(toks, id)
    ELSE IF toks[id].plan.type = FrameworkPlanType.STAY
    THEN {Done(framework_stay_step(toks[id]))}
    ELSE IF toks[id].plan.type = FrameworkPlanType.GOTO_ROOM
    THEN framework_goto_room_step(toks[id])
    ELSE find_token_step(toks, toks[id])

RECURSIVE move_all(_, _)
\* move_tokens: the loop over self.tokens; an exception ends it
move_all(ids, toks) ==
    IF ids = <<>> THEN {[tokens |-> toks, exc |-> "none"]}
    ELSE UNION {IF o.exc # "none"
                THEN {[tokens |-> [toks EXCEPT ![Head(ids)] = o.agent], exc |-> o.exc]}
                ELSE move_all(Tail(ids), [toks EXCEPT ![Head(ids)] = o.agent])
                : o \in framework_execute_plan(toks, Head(ids))}

\* the token list, in list order
TokenIds == <<"0", "1">>

\* run() lines 481-483: a click on the Next Turn button
move_tokens ==
    /\ pc = "turn" /\ crashed = "none"
    /\ \E o \in move_all(TokenIds, tokens) :
          /\ tokens' = o.tokens
          /\ crashed' = o.exc
    /\ UNCHANGED <<talk, paused, selected_agent, clock, controller, rooms, doors, hashOrder,
                   agents, cauldron, voted, pc, ticked,
                   touched, query, result>>

\* initialize_tokens: every token in a random cell of a random room
initialize_tokens(rs) ==
    {[t \in {TokenIds[i] : i \in DOMAIN TokenIds} |->
        Token(place[t][2][1], place[t][2][2], place[t][1])]
     : place \in [{TokenIds[i] : i \in DOMAIN TokenIds}
                    -> UNION {{<<r, c>> : c \in rs[r]} : r \in DOMAIN rs}]}

\* the board of rows AB and CD: doors join A to B and B to D, C has none
QuadRooms ==
    [r \in {"A", "B", "C", "D"} |->
        IF r = "A" THEN {<<0, 0>>} ELSE IF r = "B" THEN {<<1, 0>>}
        ELSE IF r = "C" THEN {<<0, 1>>} ELSE {<<1, 1>>}]

QuadDoors == <<<<"A", "B">>, <<"B", "D">>>>

\* BoardGame.__init__ of the base variant on the given board
TokenInitOn(rs, lines, ord) ==
    /\ rooms = rs
    /\ doors = lines
    /\ hashOrder = ord
    /\ tokens \in initialize_tokens(rs)
    /\ agents = <<>>
    /\ cauldron = BoardCauldron
    /\ voted = FALSE
    /\ pc = "turn"
    /\ ticked = None
    /\ touched = {}
    /\ crashed = "none"
    /\ query = <<>>
    /\ result = [kind |-> "none", path |-> <<>>]
    /\ clock = 0
    /\ controller = GameController
    /\ paused = FALSE
    /\ selected_agent = None
    /\ talk = NoTalk

\* two tokens on the board of four rooms or on the single room AA
TokenInit ==
    \/ TokenInitOn(QuadRooms, QuadDoors, <<"A", "B", "C", "D">>)
    \/ TokenInitOn([r \in {"A"} |-> {<<0, 0>>, <<1, 0>>}], <<>>, <<"A">>)

TokenSpec == TokenInit /\ [][move_tokens]_vars

\* the button is clicked again and again
TokenFairSpec == TokenSpec /\ WF_vars(move_tokens)

----------------------------------------------------------------------------
(* properties                                                               *)

\* the rooms one door away from room
Adjacent(ds, room) ==
    {q \in {ds[i].room1 : i \in DOMAIN ds} \cup {ds[i].room2 : i \in DOMAIN ds} :
        has_door(ds, room, q)}

RECURSIVE ReachWithin(_, _, _)
\* the rooms at most n doors away from a room of S
ReachWithin(ds, S, n) ==
    IF n = 0 THEN S
    ELSE ReachWithin(ds, S \cup UNION {Adjacent(ds, r) : r \in S}, n - 1)

\* some chain of doors joins the two rooms
Connected(ds, room1, room2) == room2 \in ReachWithin(ds, {room1}, Len(ds))

\* the least number of doors between two joined rooms
Dist(ds, room1, room2) ==
    CHOOSE n \in 0..Len(ds) :
        /\ room2 \in ReachWithin(ds, {room1}, n)
        /\ \A m \in 0..(n - 1) : room2 \notin ReachWithin(ds, {room1}, m)

\* the board cell a position lies in, as int(x), int(y) compute it
CellOf(agent) == <<FloatInt(agent.x, agent.fx), FloatInt(agent.y, agent.fy)>>

\* the agents present before and after a step
Staying == DOMAIN agents \cap DOMAIN agents'

AtThreshold(from_room, after) ==
    /\ has_door(doors, from_room, after.current_room)
    /\ LET door == get_door_between_rooms(doors, from_room, after.current_room)
           door_pos == midpoint(door)
           first == door.room1 = from_room
           entry == IF is_horizontal(door)
                    THEN <<door_pos[1], door_pos[2] + (IF first THEN 1 ELSE 0 - 1)>>
                    ELSE <<door_pos[1] + (IF first THEN 1 ELSE 0 - 1), door_pos[2]>>
           coord == IF is_horizontal(door) THEN after.y ELSE after.x
           side == IF is_horizontal(door) THEN after.fy ELSE after.fx
           line == IF is_horizontal(door) THEN door_pos[2] ELSE door_pos[1]
       IN  \/ first /\ FloatGt(coord, side, line)
           \/ ~first /\ FloatLt(coord, side, line)
           \/ /\ FloatEq(after.x, after.fx, entry[1])
              /\ FloatEq(after.y, after.fy, entry[2])

\* a movement step towards the head waypoint took the agent into that
\* waypoint's room
MovementStep(before, after) ==
    /\ before.waypoints # <<>>
    /\ after.current_room =
          get_room_at_position(rooms, doors, before.waypoints[1], NoRoom)
    /\ after.plan = before.plan

C3_RoomChangesAcrossADoor ==
    [][\A a \in Staying :
          agents'[a].current_room # agents[a].current_room
             => has_door(doors, agents[a].current_room, agents'[a].current_room)]_vars

\* C3 witness: an agent that set out from C for A two doors away stands in B
C3_Witness ==
    \E a \in DOMAIN agents :
        /\ agents[a].plan.target = "A"
        /\ agents[a].plan.visited_rooms = {"C"}
        /\ agents[a].current_room = "B"

\* the cells of the doors of room: the cells a door spans, its position and
\* the cells either side of it
ThresholdCells(room) ==
    UNION {LET door_pos == midpoint(doors[i])
           IN  {door_pos, <<doors[i].x1, doors[i].y1>>, <<doors[i].x2, doors[i].y2>>}
               \cup (IF is_horizontal(doors[i])
                     THEN {<<door_pos[1], door_pos[2] + 1>>, <<door_pos[1], door_pos[2] - 1>>}
                     ELSE {<<door_pos[1] + 1, door_pos[2]>>, <<door_pos[1] - 1, door_pos[2]>>})
             : i \in {j \in DOMAIN doors : room \in {doors[j].room1, doors[j].room2}}}

\* C4: the cell of every agent's position is a cell of its current_room,
\* except while the agent is on a threshold cell of a door of that room
C4_PositionInsideCurrentRoom ==
    \A a \in DOMAIN agents :
        \/ CellOf(agents[a]) \in rooms[agents[a].current_room]
        \/ CellOf(agents[a]) \in ThresholdCells(agents[a].current_room)

\* the result of the last path query
Start == query[1]
Target == query[2]

\* C5: for rooms joined by a chain of doors, find_path_to_room returns a room
\* sequence from the start to the target with a door between consecutive
\* rooms and as many hops as the shortest door chain
C5_ShortestRoomPath ==
    (query # <<>> /\ Connected(doors, Start, Target))
       => /\ result.kind = "path"
          /\ result.path # <<>>
          /\ result.path[1] = Start
          /\ result.path[Len(result.path)] = Target
          /\ \A i \in 1..(Len(result.path) - 1) :
                has_door(doors, result.path[i], result.path[i + 1])
          /\ Len(result.path) - 1 = Dist(doors, Start, Target)

\* C5 witness: a query answered by a two-hop path although a longer door chain
\* joins the same rooms
C5_Witness ==
    /\ query # <<>>
    /\ result.kind = "path" /\ Len(result.path) = 3
    /\ Len(doors) = 4
    /\ \E r \in PathRooms \ {result.path[1], result.path[2], result.path[3]} :
          has_door(doors, result.path[1], r) /\ has_door(doors, r, result.path[2])

\* C6: for distinct rooms that no chain of doors joins, a start room without
\* any door included, find_path_to_room returns none and raises no error
C6_NoPathWithoutError ==
    (query # <<>> /\ Start # Target /\ ~Connected(doors, Start, Target))
       => result.kind = "none"

\* the waypoints expected along room_path: one door position per hop
ExpectedWaypoints(room_path, cell) ==
    [i \in 1..Len(room_path) |->
        IF i < Len(room_path)
        THEN midpoint(get_door_between_rooms(doors, room_path[i], room_path[i + 1]))
        ELSE cell]

\* C7: for an agent whose current_room differs from the room of a reachable
\* target cell, find_path_through_doors returns the door position of every
\* crossing of the room path, in path order, followed by the target cell
C7_OneWaypointPerCrossing ==
    \A a \in DOMAIN agents : \A target_room \in DOMAIN rooms : \A cell \in rooms[target_room] :
        (target_room # agents[a].current_room
           /\ Connected(doors, agents[a].current_room, target_room))
        => LET found == find_path_through_doors(rooms, doors, hashOrder, agents[a],
                                                cell[1], cell[2])
               hops == Dist(doors, agents[a].current_room, target_room)
           IN  /\ found.kind = "ok"
               /\ Len(found.waypoints) = hops + 1
               /\ found.waypoints[hops + 1] = cell
               /\ found.waypoints =
                     ExpectedWaypoints(
                        find_path_to_room(doors, hashOrder, agents[a].current_room,
                                          target_room).path, cell)

\* C7 witness: an agent has been given the waypoints of a trip across two
\* doors: it heads for the first door position, the second door position and
\* the target cell are queued
C7_Witness ==
    \E a \in DOMAIN agents :
        /\ agents[a].current_room = "A"
        /\ agents[a].target_x = 2 /\ agents[a].target_y = 0
        /\ Len(agents[a].waypoints) = 2
        /\ agents[a].waypoints[1] = <<4, 0>>
        /\ agents[a].waypoints[2] \in rooms["C"]

\* an agent on a trip from A to C, rooms in a line A, B, C
FromAToC(agent) ==
    /\ agent.plan.type \in {AgentsPlanType.GOTO_ROOM, PlanType.GOTO_ROOM}
    /\ agent.plan.target = "C"
    /\ "A" \in agent.plan.visited_rooms

\* C8: on a trip A, B, C current_room reads A until the agent reaches the
\* entry cell of the first door, then B while it is between the doors, and C
\* only after the entry cell of the second door; no room is skipped
C8_RoomsReadInPathOrder ==
    \A a \in DOMAIN agents :
        FromAToC(agents[a])
        => LET cell == CellOf(agents[a])
               first_entry == midpoint(get_door_between_rooms(doors, "A", "B"))[1] + 1
               second_entry == midpoint(get_door_between_rooms(doors, "B", "C"))[1] + 1
           IN  /\ agents[a].current_room \in {"A", "B", "C"}
               /\ agents[a].current_room = "A" => cell[1] <= first_entry
               /\ agents[a].current_room = "B" => cell[1] >= first_entry - 1
               /\ agents[a].current_room = "C" => cell[1] >= second_entry - 1
               /\ cell[1] > first_entry => agents[a].current_room # "A"
               /\ cell[1] > second_entry => agents[a].current_room = "C"

\* C9: when plan selection picks a goto-room plan and path finding to the
\* chosen cell fails, no plan is installed
C9_FailedPathInstallsNoPlan ==
    [][\A a \in Staying :
          (/\ agents[a].plan.type \notin {AgentsPlanType.GOTO_ROOM, PlanType.GOTO_ROOM}
           /\ agents'[a].plan.type \in {AgentsPlanType.GOTO_ROOM, PlanType.GOTO_ROOM})
          => Connected(doors, agents'[a].current_room, agents'[a].plan.target)]_vars

\* an agent holds a goto-room plan for a room no chain of doors reaches
HoldsUnreachable(a) ==
    /\ a \in DOMAIN agents
    /\ agents[a].plan.type \in {AgentsPlanType.GOTO_ROOM, PlanType.GOTO_ROOM}
    /\ ~Connected(doors, agents[a].current_room, agents[a].plan.target)

\* C10: an agent holding a goto-room plan whose target room cannot be reached
\* eventually has the plan cleared; it never holds that plan forever
C10_UnreachablePlanCleared ==
    \A a \in {0} : HoldsUnreachable(a) ~> (a \in DOMAIN agents /\ agents[a].plan = NoPlan)

(***************************************************************************)
(* Plans: failure policy, countdown, completion                            *)
(***************************************************************************)

\* C11: no step crashes on a planning failure: execute_plan called for an
\* agent that holds no plan returns without raising an error
C11_ExecutePlanOnNoPlanReturns ==
    [][\A a \in DOMAIN agents :
          (ticked' = a /\ agents[a].plan = NoPlan) => crashed' = "none"]_vars

\* a scheduler step that ran execute_plan for agent a
Scheduled(a) == pc = "events" /\ pc' = "check" /\ ticked' = a

\* C12: a Stay plan with countdown N is cleared at exactly the N-th tick on
\* which its agent is scheduled: such a tick clears the plan when one turn
\* remains and otherwise leaves the same plan with one turn fewer; steps
\* that schedule another agent leave the plan alone
C12_StayClearsAfterCountdown ==
    [][\A a \in Staying :
          (/\ agents[a].plan # NoPlan
           /\ agents[a].plan.type \in {PlanType.STAY, AgentsPlanType.STAY}
           /\ crashed' = "none")
          => IF ~Scheduled(a) THEN agents'[a].plan = agents[a].plan
             ELSE IF agents[a].plan.turns_remaining <= 1 THEN agents'[a].plan = NoPlan
             ELSE agents'[a].plan =
                     [agents[a].plan EXCEPT !.turns_remaining = @ - 1]]_vars

\* the cells around the board that belong to no room: walls and cells out of
\* bounds
OutsideCells ==
    {<<x, y>> : x \in 0..3, y \in 0..1} \ UNION {rooms[r] : r \in DOMAIN rooms}

\* C13: for a target cell outside every room get_room_at_position finds no
\* room, find_path_through_doors returns the empty list, and set_target
\* returns with the agent's target and waypoints as they were
C13_OutsideTargetInstallsNothing ==
    \A a \in DOMAIN agents : \A cell \in OutsideCells :
        /\ get_room_at_position(rooms, doors, cell, NoRoom) = NoRoom
        /\ find_path_through_doors(rooms, doors, hashOrder, agents[a], cell[1], cell[2])
               = [kind |-> "ok", waypoints |-> <<>>]
        /\ set_target(agents[a], cell[1], cell[2]) = Done(agents[a])

\* the cauldron stands outside every room, and choose_new_plan has called
\* set_target with its cell for an agent that was idle and is idle still
C13_Witness ==
    /\ <<cauldron.x, cauldron.y>> \in OutsideCells
    /\ \E a \in DOMAIN agents :
          /\ agents[a].plan # NoPlan
          /\ agents[a].plan.type = PlanType.GO_TO_CAULDRON
          /\ agents[a].target_x = None /\ agents[a].target_y = None
          /\ agents[a].waypoints = <<>>

\* agent a holds a GoToResource plan
GoingToCauldron(a) ==
    agents[a].plan # NoPlan /\ agents[a].plan.type = PlanType.GO_TO_CAULDRON

\* C14 as stated: execute_plan for an agent holding a GoToResource plan at the
\* cauldron's cell adds one to the counter and clears the plan; away from the
\* cell it changes neither the counter nor the plan
C14_ArrivalDepositsAndClears ==
    [][\A a \in Staying :
          (Scheduled(a) /\ GoingToCauldron(a))
          => IF at_cauldron(agents[a])
             THEN /\ cauldron'.ingredients = cauldron.ingredients + 1
                  /\ agents'[a].plan = NoPlan
             ELSE /\ cauldron'.ingredients = cauldron.ingredients
                  /\ agents'[a].plan = agents[a].plan]_vars

\* C14 as amended: at the cauldron's cell the plan is cleared, and the counter
\* grows by one when the agent is a witch and keeps its value when it is the
\* impostor; away from the cell neither the counter nor the plan changes
C14_WitchArrivalDepositsAndClears ==
    [][\A a \in Staying :
          (Scheduled(a) /\ GoingToCauldron(a))
          => IF at_cauldron(agents[a])
             THEN /\ cauldron'.ingredients =
                        cauldron.ingredients + (IF agents[a].role = "witch" THEN 1 ELSE 0)
                  /\ agents'[a].plan = NoPlan
             ELSE /\ cauldron'.ingredients = cauldron.ingredients
                  /\ agents'[a].plan = agents[a].plan]_vars

\* the impostor has just completed a GoToResource plan at a cauldron that
\* holds a witch's ingredient
C14_Witness ==
    /\ pc = "check" /\ ticked \in DOMAIN agents
    /\ agents[ticked].role = "impostor"
    /\ agents[ticked].plan = NoPlan
    /\ at_cauldron(agents[ticked])
    /\ cauldron.ingredients >= 1

\* C15 as stated: the counter changes only in a step that completes a
\* GoToResource plan
C15_CounterChangesOnlyOnCompletion ==
    [][cauldron'.ingredients # cauldron.ingredients
       => \E a \in Staying :
             /\ Scheduled(a) /\ GoingToCauldron(a)
             /\ agents'[a].plan = NoPlan]_vars

\* C15 as amended: the counter changes only by one in a step that completes
\* a GoToResource plan, or to zero in the step of the threshold consumer that
\* found the threshold reached and held the vote
C15_CounterChangesOnCompletionOrReset ==
    [][cauldron'.ingredients # cauldron.ingredients
       => \/ \E a \in Staying :
                /\ Scheduled(a) /\ GoingToCauldron(a)
                /\ agents'[a].plan = NoPlan
                /\ cauldron'.ingredients = cauldron.ingredients + 1
          \/ /\ pc = "check" /\ pc' = "update"
             /\ cauldron.ingredients >= VoteThreshold
             /\ ~voted /\ voted'
             /\ cauldron'.ingredients = 0]_vars

\* the threshold consumer has just emptied the cauldron
C15_Witness == pc = "update" /\ voted /\ cauldron.ingredients = 0

\* plan q is plan p further along: the same type and target, no more turns
\* remaining and no fewer visited rooms
Continues(p, q) ==
    /\ q.type = p.type /\ q.target = p.target
    /\ q.turns_remaining <= p.turns_remaining
    /\ p.visited_rooms \subseteq q.visited_rooms

TokenSet == {TokenIds[i] : i \in DOMAIN TokenIds}

\* token t holds a plan of the given type
Holds(t, type) == tokens[t].plan.type = type

\* C18: while the same GotoRoom or FindAgent plan remains a token's plan, its
\* visited-rooms set loses no element: a turn that leaves the token a plan
\* leaves it every room the plan had visited
C18_VisitedRoomsOnlyGrow ==
    [][\A t \in TokenSet :
          (/\ tokens[t].plan.type \in
                  {FrameworkPlanType.GOTO_ROOM, FrameworkPlanType.FIND_TOKEN}
           /\ tokens'[t].plan.type = tokens[t].plan.type)
          => tokens[t].plan.visited_rooms \subseteq tokens'[t].plan.visited_rooms]_vars

\* a token's search has taken it through three rooms
C18_Witness ==
    \E t \in TokenSet :
        /\ Holds(t, FrameworkPlanType.FIND_TOKEN)
        /\ Cardinality(tokens[t].plan.visited_rooms) >= 3

\* C19: a FindAgent plan completes or is cleared after finitely many turns,
\* whatever rooms the random choices pick: a token that holds one comes to
\* hold it no longer, or the program has stopped on an error
C19_FindTokenPlanEnds ==
    \A t \in TokenSet :
        [](Holds(t, FrameworkPlanType.FIND_TOKEN)
           => <>(~Holds(t, FrameworkPlanType.FIND_TOKEN) \/ crashed # "none"))

\* C20: on a map of a single room a turn raises no error, and a token
\* without a plan that asked for a GotoRoom plan is left without a plan: no
\* token comes to hold a GotoRoom plan
C20_SingleRoomPlanRequestIsGraceful ==
    [][Cardinality(DOMAIN rooms) = 1
       => /\ crashed' = "none"
          /\ \A t \in TokenSet : ~Holds(t, FrameworkPlanType.GOTO_ROOM)']_vars


----------------------------------------------------------------------------
(* agents.py: one movement step *)

Moving(agent) == agent.target_x # None /\ agent.target_y # None

\* the nominal displacements of a moving agent, in speed steps
DisplacementX(agent) == agent.target_x * StepsPerCell - agent.x
DisplacementY(agent) == agent.target_y * StepsPerCell - agent.y

\* the outcomes of the two comparisons with speed under which update_position
\* does not snap
NonSnapping(agent) ==
    {c \in FloatCmp(DisplacementX(agent)) \X FloatCmp(DisplacementY(agent)) :
        ~(c[1] = "lt" /\ c[2] = "lt")}

\* coordinate from became to, one speed step in the direction of d
OneStep(from, to, d) == d # 0 /\ to - from = (IF d > 0 THEN 1 ELSE 0 - 1)

MovedHorizontally(agent, o) ==
    /\ OneStep(agent.x, o.agent.x, DisplacementX(agent))
    /\ o.agent.y = agent.y /\ o.agent.fy = agent.fy

MovedVertically(agent, o) ==
    /\ OneStep(agent.y, o.agent.y, DisplacementY(agent))
    /\ o.agent.x = agent.x /\ o.agent.fx = agent.fx

VerticalIsLarger(agent, c) ==
    \/ Abs(DisplacementY(agent)) > Abs(DisplacementX(agent))
    \/ /\ Abs(DisplacementY(agent)) = Abs(DisplacementX(agent))
       /\ c[1] = "lt" /\ c[2] = "gt"

\* C24 as stated: a movement step that does not snap moves along the axis
\* with the larger displacement, horizontally when the two are equal, and
\* vertically whenever the vertical displacement is strictly larger.
C24_MovesAlongLargerDisplacement ==
    \A a \in DOMAIN agents :
        Moving(agents[a]) =>
            \A c \in NonSnapping(agents[a]) :
                \A o \in move_step(agents[a], c[1], c[2]) :
                    IF VerticalIsLarger(agents[a], c)
                    THEN MovedVertically(agents[a], o)
                    ELSE MovedHorizontally(agents[a], o)

\* C24: a movement step that does not snap moves horizontally whenever the
\* horizontal displacement exceeds one speed step, whatever the vertical
\* displacement is, and moves vertically only when the horizontal
\* displacement is within one speed step.
C24_MovesHorizontallyFirst ==
    \A a \in DOMAIN agents :
        Moving(agents[a]) =>
            \A c \in NonSnapping(agents[a]) :
                \A o \in move_step(agents[a], c[1], c[2]) :
                    /\ Abs(DisplacementX(agents[a])) > 1 => MovedHorizontally(agents[a], o)
                    /\ MovedVertically(agents[a], o) => Abs(DisplacementX(agents[a])) <= 1
                    /\ MovedHorizontally(agents[a], o) \/ MovedVertically(agents[a], o)

\* an agent whose target is further away vertically than horizontally, and
\* more than a speed step away horizontally
C24_Witness ==
    \E a \in DOMAIN agents :
        /\ Moving(agents[a])
        /\ Abs(DisplacementX(agents[a])) > 1
        /\ Abs(DisplacementY(agents[a])) > Abs(DisplacementX(agents[a]))

----------------------------------------------------------------------------
(* agents.py: the snap *)

\* both comparisons with speed can come out smaller
Snapping(agent) ==
    /\ Moving(agent)
    /\ "lt" \in FloatCmp(DisplacementX(agent))
    /\ "lt" \in FloatCmp(DisplacementY(agent))

OnTarget(before, after) ==
    /\ after.x = before.target_x * StepsPerCell /\ after.fx = 0
    /\ after.y = before.target_y * StepsPerCell /\ after.fy = 0

\* C25: when an agent has an immediate target and both displacements are
\* smaller than one speed step, update_position puts the agent exactly on the
\* target, clears the immediate target (with waypoints left the next one is
\* issued in the same call), and returns True exactly when the waypoint queue
\* is empty at that point.
C25_SnapReachesTargetAndReports ==
    \A a \in DOMAIN agents :
        Snapping(agents[a]) =>
            \A o \in move_step(agents[a], "lt", "lt") :
                /\ OnTarget(agents[a], o.agent)
                /\ o.exc = "none" => (o.ret <=> agents[a].waypoints = <<>>)
                /\ o.exc # "none" => agents[a].waypoints # <<>>
                /\ agents[a].waypoints = <<>> /\ agents[a].plan # NoPlan => ~Moving(o.agent)

\* an agent about to snap onto its last target, the queue empty
C25_Witness ==
    \E a \in DOMAIN agents :
        /\ Snapping(agents[a])
        /\ agents[a].x % StepsPerCell # 0 \/ agents[a].y % StepsPerCell # 0
        /\ agents[a].waypoints = <<>>

----------------------------------------------------------------------------
(* agents.py: the waypoint queue *)

\* the call left the queue as it was, or removed its head and made it the
\* immediate target
ConsumedInOrder(before, o) ==
    /\ o.exc = "none"
    /\ \/ o.agent.waypoints = before.waypoints
       \/ /\ o.agent.waypoints = Tail(before.waypoints)
          /\ <<o.agent.target_x, o.agent.target_y>> = Head(before.waypoints)

\* C26: waypoints are consumed in queue order, one per pop: a call of
\* update_position that finds waypoints left leaves the queue as it is or
\* removes exactly its head and makes it the immediate target, so that no
\* waypoint leaves the queue without having been the target.
C26_WaypointsConsumedInOrder ==
    \A a \in DOMAIN agents :
        Snapping(agents[a]) /\ agents[a].waypoints # <<>> =>
            \A o \in move_step(agents[a], "lt", "lt") : ConsumedInOrder(agents[a], o)

\* the room update_position finds the head waypoint in (line 59)
HeadRoom(agent) == get_room_at_position(rooms, doors, Head(agent.waypoints), NoRoom)

\* the head waypoint of a snapping agent lies in a room other than the one
\* the agent is tracked in
HeadElsewhere(agent) ==
    /\ Snapping(agent) /\ agent.waypoints # <<>>
    /\ HeadRoom(agent) # NoRoom /\ HeadRoom(agent) # agent.current_room

\* C27: while the next waypoint lies in a room other than current_room,
\* update_position either issues a cell next to the door as the immediate
\* target and leaves the waypoint queue and current_room as they are, or
\* commits the room reassignment and the waypoint pop together; it never
\* removes the waypoint while current_room stays behind, also when the
\* waypoint's room is not adjacent to current_room.
C27_PopOnlyWithRoomChange ==
    \A a \in DOMAIN agents :
        HeadElsewhere(agents[a]) =>
            \A o \in move_step(agents[a], "lt", "lt") :
                \/ /\ o.agent.waypoints = agents[a].waypoints
                   /\ o.agent.current_room = agents[a].current_room
                   /\ Moving(o.agent)
                \/ /\ o.agent.waypoints # agents[a].waypoints
                   /\ o.agent.current_room = HeadRoom(agents[a])

----------------------------------------------------------------------------
(* agents.py, board.py: the GotoRoom plan *)

IsGotoRoom(plan) == plan.type \in {AgentsPlanType.GOTO_ROOM, PlanType.GOTO_ROOM}

\* the last cell of the path set_target installed
Destination(agent) ==
    IF agent.waypoints = <<>> THEN <<agent.target_x, agent.target_y>>
    ELSE agent.waypoints[Len(agent.waypoints)]

OwnCell(agent) == <<FloatInt(agent.x, agent.fx), FloatInt(agent.y, agent.fy)>>

\* C30: every GotoRoom plan is installed with a target room other than the
\* room the agent is in at that moment, and the path installed with it ends
\* on a cell of the target room that is not the agent's own cell.
C30_GotoRoomLeavesRoomAndCell ==
    [][\A a \in DOMAIN agents :
           agents[a].plan = NoPlan /\ IsGotoRoom(agents'[a].plan) =>
               /\ agents'[a].plan.target # agents[a].current_room
               /\ agents'[a].plan.target \in DOMAIN rooms
               /\ Moving(agents'[a]) =>
                      /\ Destination(agents'[a]) \in rooms[agents'[a].plan.target]
                      /\ Destination(agents'[a]) # OwnCell(agents[a])]_vars

\* an agent holding a GotoRoom plan and the path installed with it, not
\* yet moved
C30_Witness ==
    \E a \in DOMAIN agents :
        /\ IsGotoRoom(agents[a].plan) /\ Moving(agents[a])
        /\ agents[a].waypoints # <<>>
        /\ agents[a].x % StepsPerCell = 0 /\ agents[a].y % StepsPerCell = 0
        /\ Destination(agents[a]) \in rooms[agents[a].plan.target]

----------------------------------------------------------------------------
(* doors.py, agents.py: the order of the room names of a door line *)

\* the agent as update_position leaves it at the snap, before it looks at the
\* queue (lines 116-119)
Snapped(agent) ==
    [agent EXCEPT !.x = agent.target_x * StepsPerCell, !.fx = 0,
                  !.y = agent.target_y * StepsPerCell, !.fy = 0,
                  !.target_x = None, !.target_y = None]

\* the agent is about to arrive with the head waypoint behind a door of its
\* current room
AtDoor(agent) ==
    HeadElsewhere(agent) /\ has_door(doors, agent.current_room, HeadRoom(agent))

DoorAhead(agent) == get_door_between_rooms(doors, agent.current_room, HeadRoom(agent))

\* the door file with the names of the line of the door ahead in the other order
SwappedAhead(agent) ==
    [i \in DOMAIN doors |->
        IF i = first_door(doors, agent.current_room, HeadRoom(agent))
        THEN swap_names(doors[i]) ELSE doors[i]]

\* C22: the order in which a door line names its two rooms is not
\* significant: with the names of a line swapped, adjacency, door lookup and
\* door position are the same, and an agent arriving at the door takes the
\* same position, target, queue and current_room as with the line as it is.
C22_DoorNameOrderInsignificant ==
    \A a \in DOMAIN agents :
        AtDoor(agents[a]) =>
            LET agent == agents[a]
                other == SwappedAhead(agent)
                door == DoorAhead(agent)
                door_pos == get_door_position(doors, agent.current_room, HeadRoom(agent))
            IN  /\ room_connections(other) = room_connections(doors)
                /\ first_door(other, agent.current_room, HeadRoom(agent))
                       = first_door(doors, agent.current_room, HeadRoom(agent))
                /\ get_door_position(other, agent.current_room, HeadRoom(agent)) = door_pos
                /\ cross_door(Snapped(agent), Head(agent.waypoints), HeadRoom(agent),
                              swap_names(door), door_pos)
                       = cross_door(Snapped(agent), Head(agent.waypoints), HeadRoom(agent),
                                    door, door_pos)

\* C28: for every door and either direction of crossing, whichever room the
\* door line names first: the entry cell update_position issues is a cell of
\* the room being entered, and current_room is reassigned only to the room
\* whose cells contain the agent's position.
C28_EntryCellInRoomEntered ==
    \A a \in DOMAIN agents :
        AtDoor(agents[a]) =>
            LET agent == agents[a]
                o == cross_door(Snapped(agent), Head(agent.waypoints), HeadRoom(agent),
                                DoorAhead(agent),
                                get_door_position(doors, agent.current_room, HeadRoom(agent)))
            IN  IF o.agent.current_room = agent.current_room
                THEN <<o.agent.target_x, o.agent.target_y>> \in rooms[HeadRoom(agent)]
                ELSE OwnCell(o.agent) \in rooms[o.agent.current_room]

----------------------------------------------------------------------------
(* controller.py: the scheduler *)

\* a call of handle_events, and whether it found the interval elapsed
HandlesEvents == pc = "events" /\ pc' = "check"
Elapsed == clock' - controller.last_tick >= controller.tick_rate_ms

\* C21: each firing of the scheduler runs the plan-advance-and-move step on
\* exactly one agent of the current agent list and advances the turn counter
\* by exactly one; when less than the current interval has passed since the
\* last firing, no agent is stepped and the turn counter keeps its value.
C21_FiringStepsOneAgentOneTurn ==
    [][HandlesEvents =>
          IF Elapsed
          THEN /\ controller'.turn = controller.turn + 1
               /\ ticked' \in DOMAIN agents
               /\ \A b \in DOMAIN agents \ {ticked'} : agents'[b] = agents[b]
          ELSE /\ controller'.turn = controller.turn
               /\ agents' = agents /\ ticked' = None]_vars

----------------------------------------------------------------------------
(* board-game-framework.py: the FindAgent step *)

\* the token lists execute_plan(t) can find in a turn: the list as it is for
\* the first token, and as the first token's step left it for the second
SeenBy(t) ==
    IF t = TokenIds[1] THEN {tokens}
    ELSE {[tokens EXCEPT ![TokenIds[1]] = o.agent]
          : o \in {q \in framework_execute_plan(tokens, TokenIds[1]) : q.exc = "none"}}

\* the rooms joined by a door line to the room of the token
ConnectedTo(token) == connected_rooms(rooms, doors)[token.current_room]

\* C31: a FindAgent step clears the plan without moving the seeker when the
\* seeker's room is the target's room; otherwise it moves the seeker to a room
\* connected to its room, one not in the visited set whenever there is such a
\* connected room, and adds that room to the visited set; when the room has
\* no connected room the plan is cleared.
C31_FindAgentStep ==
    \A t \in DOMAIN tokens : \A toks \in SeenBy(t) :
        toks[t].plan.type = FrameworkPlanType.FIND_TOKEN =>
            LET token == toks[t]
            IN  \A o \in framework_execute_plan(toks, t) :
                    /\ o.exc = "none"
                    /\ IF \/ token.current_room = toks[token.plan.target].current_room
                          \/ ConnectedTo(token) = {}
                       THEN o.agent = [token EXCEPT !.plan = NoPlan]
                       ELSE /\ o.agent.current_room \in ConnectedTo(token)
                            /\ ConnectedTo(token) \ token.plan.visited_rooms # {}
                                   => o.agent.current_room \notin token.plan.visited_rooms
                            /\ <<o.agent.x, o.agent.y>> \in rooms[o.agent.current_room]
                            /\ o.agent.plan =
                                   [token.plan EXCEPT !.visited_rooms =
                                        @ \cup {o.agent.current_room}]

\* a seeker away from its target, in a room with a connected room it has
\* visited and one it has not
C31_Witness ==
    \E t \in DOMAIN tokens :
        /\ tokens[t].plan.type = FrameworkPlanType.FIND_TOKEN
        /\ tokens[t].current_room # tokens[tokens[t].plan.target].current_room
        /\ ConnectedTo(tokens[t]) \ tokens[t].plan.visited_rooms # {}
        /\ ConnectedTo(tokens[t]) \cap tokens[t].plan.visited_rooms # {}

----------------------------------------------------------------------------
(* agents.py, board.py: an agent without a plan *)

\* C32: an agent whose plan is none does not stay idle forever: on a map of
\* at least two rooms it eventually has a plan installed, and an agent whose
\* stuck flag is set eventually holds a GotoRoom plan or has the flag cleared
\* by the attempt.
C32_IdleAgentGetsPlan ==
    \A a \in {0} :
        /\ (a \in DOMAIN agents /\ agents[a].plan = NoPlan /\ Cardinality(DOMAIN rooms) >= 2)
               ~> (a \in DOMAIN agents /\ agents[a].plan # NoPlan)
        /\ (a \in DOMAIN agents /\ agents[a].stuck)
               ~> (a \in DOMAIN agents /\ (IsGotoRoom(agents[a].plan) \/ ~agents[a].stuck))

----------------------------------------------------------------------------
(* board.py: pause and selection *)

\* what planning and movement keep of the game
GameState == <<agents, controller.turn, cauldron.ingredients>>

\* C33: while the simulation is paused no agent's position, immediate target,
\* waypoint queue, current_room or plan changes, and neither the turn counter
\* nor the cauldron's counter changes; a click that toggles the pause or
\* selects an agent changes none of them either.
C33_PauseAndClicksFreezeGame ==
    [][(paused \/ paused' # paused \/ selected_agent' # selected_agent)
           => GameState' = GameState]_vars

\* the simulation paused in the middle of a walk, an agent selected, after a
\* firing of the scheduler
C33_Witness ==
    /\ paused /\ selected_agent # None
    /\ controller.turn > 0
    /\ \E a \in DOMAIN agents : Moving(agents[a]) /\ agents[a].x % StepsPerCell # 0

----------------------------------------------------------------------------
(* agents.py: the pops of update_position *)

\* C36: update_position never pops from an empty waypoint queue: in every
\* reachable state each pop it performs, the one that follows a verified
\* threshold crossing included, finds a waypoint queued, so that no call of
\* update_position raises IndexError.
C36_NoPopFromEmptyQueue ==
    \A a \in DOMAIN agents :
        \A o \in update_position(agents[a]) : o.exc # "IndexError"

----------------------------------------------------------------------------
(* agents.py, board.py: the immediate target and the waypoint queue *)

\* execute_plan line 391: no immediate target but waypoints left
WaypointsWithoutTarget(agent) ==
    agent.target_x = None /\ agent.target_y = None /\ agent.waypoints # <<>>

\* C38: between operations an agent with no immediate target has an empty
\* waypoint queue, and its target_x is none exactly when its target_y is
\* none, so that the condition of execute_plan's branch for waypoints left
\* without a target never holds.
C38_NoTargetMeansEmptyQueue ==
    \A a \in DOMAIN agents :
        /\ (agents[a].target_x = None) <=> (agents[a].target_y = None)
        /\ ~WaypointsWithoutTarget(agents[a])

\* C38 witness: an agent that was given waypoints with its plan has left the
\* room it set out from, has used up the queue and stands without an
\* immediate target.
C38_Witness ==
    \E a \in DOMAIN agents :
        /\ IsGotoRoom(agents[a].plan)
        /\ agents[a].target_x = None /\ agents[a].waypoints = <<>>
        /\ agents[a].current_room \notin agents[a].plan.visited_rooms
        /\ crashed = "none"

----------------------------------------------------------------------------
(* agents.py, board.py: the end of a GotoRoom trip *)

\* the agent holds a goto-room plan for the room, which a chain of doors
\* joins to the room the agent is tracked in
HoldsReachable(a, room) ==
    /\ a \in DOMAIN agents
    /\ IsGotoRoom(agents[a].plan) /\ agents[a].plan.target = room
    /\ Connected(doors, agents[a].current_room, room)

\* the agent stands in the room with nothing left to walk, the plan for the
\* room completed
TripCompleted(a, room) ==
    /\ a \in DOMAIN agents
    /\ agents[a].current_room = room
    /\ agents[a].target_x = None /\ agents[a].waypoints = <<>>
    /\ ~(IsGotoRoom(agents[a].plan) /\ agents[a].plan.target = room)

\* C37: an agent holding a GotoRoom plan for a room that doors lead to
\* eventually stands on its destination cell with current_room equal to the
\* target room and the plan completed, when frames keep running and the
\* scheduler keeps selecting; it never stops short or walks forever.
C37_GotoRoomPlanCompletes ==
    \A a \in {0} : \A room \in {"A", "B", "C", "D", "E"} :
        HoldsReachable(a, room) ~> TripCompleted(a, room)

----------------------------------------------------------------------------
(* board.py, cauldron.py: the counter and the vote *)

\* the threshold consumer of the frame is about to run
AtThresholdCheck == pc = "check" /\ crashed = "none"

\* C39: the shared counter never exceeds the voting threshold; the frame in
\* which it reaches the threshold holds the vote, once, and sets it back to
\* 0, and no other frame holds a vote, so that at the end of every frame that
\* was not paused the counter is below the threshold.
C39_CounterBelowThresholdAfterFrame ==
    /\ [](/\ cauldron.ingredients \in 0..VoteThreshold
          /\ pc = "update" => cauldron.ingredients < VoteThreshold)
    /\ [][AtThresholdCheck =>
              /\ voted' <=> cauldron.ingredients = VoteThreshold
              /\ voted' => cauldron'.ingredients = 0
              /\ ~voted' => cauldron' = cauldron]_vars

\* C39 witness: a frame has held the vote and set the counter back, and
\* later frames have counted a deposit again.
C39_Witness ==
    /\ pc = "update" /\ ~voted /\ cauldron.ingredients > 0
    /\ Cardinality(DOMAIN agents) < 2

----------------------------------------------------------------------------
(* board.py, conversation_handler.py, dialogue.py: the loop and a dialogue *)

\* a line of dialogue has been asked for and the answer is awaited
InFlight == talk # NoTalk /\ pc = "talk" /\ crashed = "none"

\* the steps of the loop of run(): movement, the scheduler, the consumer
LoopStep == Update \/ handle_events \/ CheckCauldron

\* C34: scheduler ticks and agent movement go on while a dialogue request is
\* in flight: the loop does not wait for the conversation before it runs its
\* next step.
C34_LoopRunsWhileDialogueInFlight == InFlight => ENABLED LoopStep

----------------------------------------------------------------------------
(* agents.py: the conversation memory *)

\* the last n entries of a sequence, in order
LastEntries(s, n) == IF Len(s) <= n THEN s ELSE SubSeq(s, Len(s) - n + 1, Len(s))

\* C35: after any sequence of remember_conversation calls the memory holds
\* at most 10 entries, the most recently added ones in the order in which
\* they arrived: the oldest is dropped when an eleventh arrives.
C35_MemoryKeepsLastTen ==
    /\ Len(agents[0].memory) <= MemoryLimit
    /\ agents[0].memory = LastEntries(query, MemoryLimit)

\* C35 witness: more than ten entries have arrived, the lines differing, and
\* the memory is full.
C35_Witness ==
    /\ Len(query) > MemoryLimit
    /\ Len(agents[0].memory) = MemoryLimit
    /\ query[1] # query[Len(query)]
    /\ agents[0].memory[1] # query[1]

----------------------------------------------------------------------------
(* conversation_handler.py: the cooldown *)

\* a pair starts to talk in this step
Starts == talk = NoTalk /\ talk' # NoTalk

\* the conversation that started is over
Over == talk # NoTalk /\ ~InFlight

====
